---- MODULE Spec2Model ----
(***************************************************************************)
(* Orchestration layer of tinyclaw-trading: the sliding-window rate        *)
(* limiter, the retry wrapper, the heartbeat scheduler, the team chain and *)
(* the Discord client's queue hand-off, each as a state machine with its   *)
(* own specification over one shared set of variables.                     *)
(***************************************************************************)
EXTENDS Integers, Sequences, FiniteSets, TLC

VARIABLES
    \* ---- rate limiter (plugins/trading-commands/handlers) ----
    dateNow,                \* Date.now(), in ms
    claudeSpawnTimestamps,  \* the module-level array of admission times
    rlCalls,                \* number of checkRateLimit calls made so far
    rlAdvances,             \* number of times the clock has moved so far
    rlAdmitted,             \* history: times of the calls that returned true
    rlLast,                 \* history: the last call, its time and its result
    \* ---- retry wrapper (lib/retry.ts) ----
    rtPc,                   \* position of withRetry
    maxRetries,             \* opts.maxRetries
    baseDelayMs,            \* opts.baseDelayMs
    attempt,                \* the loop variable
    rtCalls,                \* history: outcome of every call of fn, in order
    rtWaits,                \* history: every setTimeout delay awaited, in order
    rtResult,               \* what withRetry settled with
    \* ---- heartbeat scheduler (heartbeat script) ----
    hbPc,                   \* position of the script
    hbClock,                \* the system clock (date +%s), in seconds
    hbTicks,                \* number of ticks taken so far
    hbSettings,             \* settings.json: agent -> interval and mode
    hbWebhook,              \* whether WEBHOOK_URL is set
    NOW,                    \* NOW of the current tick
    hbTodo,                 \* agents of $AGENT_IDS the for loop has not reached
    AGENT_ID,               \* the agent the loop body is at
    MESSAGE_ID,             \* the id of the work item being queued
    PROMPT,                 \* the prompt of the last claude-mode fire
    hbRecord,               \* $STATE_DIR/<agent>.last: NoFile, Empty or a time
    hbIncoming,             \* queue/incoming: the heartbeat work item files
    hbOutgoing,             \* queue/outgoing: the heartbeat response files
    hbPosts,                \* history: POSTs made to the webhook
    hbDecision,             \* history: the last due test
    hbFiredAt,              \* history: agent -> NOW of its last fire
    hbPartialSeen,          \* history: stores a reader saw a partial file in
    \* ---- team chain orchestrator ----
    chain,                  \* team -> the ChainExecution record of its run
    chEvents,               \* team -> the events its run has emitted, in order
    chInvocations,          \* team -> history of its Invocation Engine calls
    chResponse,             \* team -> the ResponseItem text of its work item
    \* ---- Discord client (channels/discord-client.ts) ----
    dcAdvances,             \* number of times the clock has moved so far
    dcRequests,             \* number of Discord requests handled so far
    dcInflight,             \* slash commands admitted, awaiting their prompt
    dcIncoming,             \* queue/incoming: messageIds of the files written
    dcOutgoing,             \* queue/outgoing: messageIds of the discord_ files
    pendingResponses,       \* the Map messageId -> PendingResponse
    processingOutgoingQueue,\* the in-progress flag of checkOutgoingQueue
    dcPass,                 \* the pass under way: files left, send awaited; the
                            \* passes in progress and how the last one ended
    dcReplies,              \* history: direct replies to slash commands
    dcOrigin,               \* history: messageId -> the request it was queued for
    dcSent,                 \* history: responses sent, and to which request
    dcChunks,               \* per response file: its chunks and the sends of each
    dcForeign,              \* the other files of the outgoing store, by name
    dcDropped,              \* history: response files removed without a send
    \* ---- Discord client: authorization and command dispatch ----
    slPc,                   \* "boot" until the settings are in place
    allowedUserId,          \* settings.channels.discord.user_id || DISCORD_USER_ID
    resetFlag,              \* whether the reset_flag file exists
    conversationLog,        \* number of rows of strategist.conversations
    slAdvances,             \* number of times the clock has moved so far
    slCur,                  \* the event whose handler is running, if any
    slReply,                \* the answer given to the event handled last
    \* ---- prompt builders (trading-commands handlers) ----
    bdPc,                   \* whether the strategies table has been set up
    strategies,             \* strategist.strategies: id -> row
    bdCalls,                \* the validated commands received, with their position
    \* ---- notification webhook ----
    whInput,                \* the text forwarded and by which path, if any
    whPosts,                \* history: the length of the content of each POST
    \* ---- Invocation engine (lib/invoke.ts) ----
    ivPc,                   \* "idle", "write" (remote step 1), "run", "done"
    ivCall,                 \* the arguments of the invokeAgent call under way
    ivSpawned,              \* the processes the call has spawned, in order
    ivChild,                \* "none", "running", "errored" or "closed": the latest child
    ivKills,                \* the child.kill() calls of the call under way
    ivTimer,                \* the armed timeout in ms, 0 when none is armed
    ivExit,                 \* how the agent process closed, once it has
    ivCmdResult,            \* the promise of runCommand / runCommandRemote
    ivResult,               \* the promise of invokeAgent
    \* ---- Overlapping remote invocations (runCommandRemote) ----
    rmNow,                  \* Date.now() of the node process
    rmCalls,                \* per invocation: its step, tmpFile, prompt, $PROMPT
    remoteTmp,              \* /tmp of each remote host: file name -> content
    \* ---- State files (trading-db/state.ts readState, writeState) ----
    wsPc,                   \* "boot", then per writeState call its step
    wsFd,                   \* per writeState call: the file its writeFile has open
    wsPaths,                \* filePath and tmpPath: the file each names, 0 if none
    wsInodes,               \* the content of each file
    wsRead,                 \* the latest readState: its result, what was there
    \* ---- Visualizer (App of the dashboard: events directory watcher) ----
    vzPc,                   \* "boot", "mount" (before the effect), "watching"
    vzFiles,                \* the events directory: name -> state of the file
    processed,              \* the names the effect has recorded
    vzTimers,               \* names with a 50 ms timer of the watcher pending
    vzNotes,                \* name -> watcher notifications delivered so far
    vzHandled               \* name -> calls of handleEvent for its event

rlVars == <<dateNow, claudeSpawnTimestamps, rlCalls, rlAdvances, rlAdmitted, rlLast>>
rtVars == <<rtPc, maxRetries, baseDelayMs, attempt, rtCalls, rtWaits, rtResult>>
hbVars == <<hbPc, hbClock, hbTicks, hbSettings, hbWebhook, NOW, hbTodo, AGENT_ID,
            MESSAGE_ID, PROMPT, hbRecord, hbIncoming, hbOutgoing, hbPosts, hbDecision,
            hbFiredAt, hbPartialSeen>>
chVars == <<chain, chEvents, chInvocations, chResponse>>
dcVars == <<dcAdvances, dcRequests, dcInflight, dcIncoming, dcOutgoing,
            pendingResponses, processingOutgoingQueue, dcPass, dcReplies, dcOrigin,
            dcSent, dcChunks, dcForeign, dcDropped>>
slVars == <<slPc, allowedUserId, resetFlag, conversationLog, slAdvances, slCur,
            slReply>>
ivVars == <<ivPc, ivCall, ivSpawned, ivChild, ivKills, ivTimer, ivExit, ivCmdResult,
           ivResult>>
bdVars == <<bdPc, strategies, bdCalls>>
whVars == <<whInput, whPosts>>
rmVars == <<rmNow, rmCalls, remoteTmp>>
wsVars == <<wsPc, wsFd, wsPaths, wsInodes, wsRead>>
vzVars == <<vzPc, vzFiles, processed, vzTimers, vzNotes, vzHandled>>
vars == <<rlVars, rtVars, hbVars, chVars, dcVars, slVars, ivVars, bdVars, whVars,
         rmVars, wsVars, vzVars>>

None == "none"

Last(s) == s[Len(s)]

RECURSIVE Pow2(_)
Pow2(n) == IF n <= 0 THEN 1 ELSE 2 * Pow2(n - 1)

(***************************************************************************)
(* Rate limiter                                                            *)
(***************************************************************************)
RATE_LIMIT_WINDOW_MS == 60000
RATE_LIMIT_MAX == 5

\* Bounds of the rate limiter model.
MaxRlCalls == 7
MaxRlAdvances == 4
\* Amounts by which the clock moves between two calls.
RlSteps == {1, 59999, 60000}

\* while (ts.length > 0 && ts[0] <= now - WINDOW) ts.shift()
RECURSIVE EvictExpired(_, _)
EvictExpired(ts, now) ==
    IF Len(ts) > 0 /\ ts[1] <= now - RATE_LIMIT_WINDOW_MS
    THEN EvictExpired(Tail(ts), now)
    ELSE ts

\* Mutant: the limit test is off by one (length > MAX lets a sixth one in).
checkRateLimitOffByOne(ts, now) ==
    LET kept == EvictExpired(ts, now) IN
    IF Len(kept) > RATE_LIMIT_MAX
    THEN [ok |-> FALSE, ts |-> kept]
    ELSE [ok |-> TRUE, ts |-> Append(kept, now)]

\* Mutant: the time of a rejected call is recorded too.
checkRateLimitRecordRejected(ts, now) ==
    LET kept == EvictExpired(ts, now) IN
    IF Len(kept) >= RATE_LIMIT_MAX
    THEN [ok |-> FALSE, ts |-> Append(Tail(kept), now)]
    ELSE [ok |-> TRUE, ts |-> Append(kept, now)]

\* checkRateLimit(): the result and the array it leaves behind.
checkRateLimit(ts, now) ==
    LET kept == EvictExpired(ts, now) IN
    IF Len(kept) >= RATE_LIMIT_MAX
    THEN [ok |-> FALSE, ts |-> kept]
    ELSE [ok |-> TRUE, ts |-> Append(kept, now)]

RlInit ==
    /\ dateNow = 0
    /\ claudeSpawnTimestamps = <<>>
    /\ rlCalls = 0
    /\ rlAdvances = 0
    /\ rlAdmitted = <<>>
    /\ rlLast = [time |-> 0, ok |-> FALSE, before |-> <<>>]

\* Time passes (the clock never goes back).
RlAdvance ==
    /\ rlAdvances < MaxRlAdvances
    /\ \E d \in RlSteps : dateNow' = dateNow + d
    /\ rlAdvances' = rlAdvances + 1
    /\ UNCHANGED <<claudeSpawnTimestamps, rlCalls, rlAdmitted, rlLast>>
    /\ UNCHANGED <<rtVars, hbVars, chVars, dcVars, slVars, ivVars, bdVars, whVars, rmVars, wsVars, vzVars>>

\* One call of checkRateLimit() at the current time.
RlCheck ==
    /\ rlCalls < MaxRlCalls
    /\ LET r == checkRateLimit(claudeSpawnTimestamps, dateNow) IN
        /\ claudeSpawnTimestamps' = r.ts
        /\ rlAdmitted' = IF r.ok THEN Append(rlAdmitted, dateNow) ELSE rlAdmitted
        /\ rlLast' = [time |-> dateNow, ok |-> r.ok, before |-> claudeSpawnTimestamps]
    /\ rlCalls' = rlCalls + 1
    /\ UNCHANGED <<dateNow, rlAdvances>>
    /\ UNCHANGED <<rtVars, hbVars, chVars, dcVars, slVars, ivVars, bdVars, whVars, rmVars, wsVars, vzVars>>

RlNext == RlAdvance \/ RlCheck

(***************************************************************************)
(* Retry wrapper                                                           *)
(***************************************************************************)
\* Error messages, as the words the classifier's patterns are matched on.
\* Each is <<text, lower-cased text>>: the /i patterns match the second,
\* the digit patterns match the first.
ErrorMessages ==
    { <<"ECONNREFUSED", "econnrefused">>,
      <<"Timeout", "timeout">>,
      <<"503", "503">>,
      <<"ENOENT", "enoent">>,
      <<"Invalid", "invalid">> }

\* TRANSIENT_PATTERNS: the /i ones (on the lower-cased text) and the others.
TRANSIENT_PATTERNS_I ==
    {"econnrefused", "econnreset", "etimedout", "epipe", "timeout", "network",
     "socket hang up"}
TRANSIENT_PATTERNS_CS == {"503", "502", "429"}

isTransientError(err) ==
    \/ err.msg[2] \in TRANSIENT_PATTERNS_I
    \/ err.msg[1] \in TRANSIENT_PATTERNS_CS

\* Bounds of the retry model.
MaxRetriesBound == 3
BaseDelays == {1, 5000}
SuccessValues == {"v1", "v2"}

RtInit ==
    /\ rtPc = "idle"
    /\ maxRetries = 0
    /\ baseDelayMs = 0
    /\ attempt = 0
    /\ rtCalls = <<>>
    /\ rtWaits = <<>>
    /\ rtResult = [kind |-> None]

\* withRetry(fn, {maxRetries, baseDelayMs}) is called; attempt = 0.
RtStart ==
    /\ rtPc = "idle"
    /\ \E m \in -1 .. MaxRetriesBound, b \in BaseDelays :
        /\ maxRetries' = m
        /\ baseDelayMs' = b
    /\ attempt' = 0
    /\ rtPc' = "loop"
    /\ UNCHANGED <<rtCalls, rtWaits, rtResult>>
    /\ UNCHANGED <<rlVars, hbVars, chVars, dcVars, slVars, ivVars, bdVars, whVars, rmVars, wsVars, vzVars>>

\* for (...; attempt <= maxRetries; ...)
RtLoopGuard == attempt <= maxRetries

\* Mutant: the classification is ignored and every failure is retried.
RtRethrowOnlyLast(err) == attempt = maxRetries

\* if (attempt === maxRetries || !isTransientError(err)) throw err;
RtRethrow(err) == attempt = maxRetries \/ ~isTransientError(err)

\* Mutant: linear instead of exponential backoff.
RtDelayLinear == baseDelayMs * (attempt + 1)

\* const delay = baseDelayMs * Math.pow(2, attempt);
RtDelay == baseDelayMs * Pow2(attempt)

\* The loop test fails: the final throw after the loop.
RtExhausted ==
    /\ rtPc = "loop"
    /\ ~RtLoopGuard
    /\ rtPc' = "done"
    /\ rtResult' = [kind |-> "throw_generic"]
    /\ UNCHANGED <<maxRetries, baseDelayMs, attempt, rtCalls, rtWaits>>
    /\ UNCHANGED <<rlVars, hbVars, chVars, dcVars, slVars, ivVars, bdVars, whVars, rmVars, wsVars, vzVars>>

\* try { return await fn(); }: fn resolves.
RtCallOk ==
    /\ rtPc = "loop"
    /\ RtLoopGuard
    /\ \E v \in SuccessValues :
        /\ rtCalls' = Append(rtCalls, [ok |-> TRUE, value |-> v])
        /\ rtResult' = [kind |-> "return", value |-> v]
    /\ rtPc' = "done"
    /\ UNCHANGED <<maxRetries, baseDelayMs, attempt, rtWaits>>
    /\ UNCHANGED <<rlVars, hbVars, chVars, dcVars, slVars, ivVars, bdVars, whVars, rmVars, wsVars, vzVars>>

\* fn rejects with an error object (identified by the call that threw it):
\* rethrown, or a delay is scheduled.
RtCallFail ==
    /\ rtPc = "loop"
    /\ RtLoopGuard
    /\ \E m \in ErrorMessages :
        LET err == [msg |-> m, call |-> Len(rtCalls) + 1] IN
        /\ rtCalls' = Append(rtCalls, [ok |-> FALSE, err |-> err])
        /\ IF RtRethrow(err)
           THEN /\ rtResult' = [kind |-> "throw", err |-> err]
                /\ rtPc' = "done"
                /\ UNCHANGED rtWaits
           ELSE /\ rtWaits' = Append(rtWaits, RtDelay)
                /\ rtPc' = "waiting"
                /\ UNCHANGED rtResult
    /\ UNCHANGED <<maxRetries, baseDelayMs, attempt>>
    /\ UNCHANGED <<rlVars, hbVars, chVars, dcVars, slVars, ivVars, bdVars, whVars, rmVars, wsVars, vzVars>>

\* The setTimeout delay elapses; attempt++.
RtWake ==
    /\ rtPc = "waiting"
    /\ attempt' = attempt + 1
    /\ rtPc' = "loop"
    /\ UNCHANGED <<maxRetries, baseDelayMs, rtCalls, rtWaits, rtResult>>
    /\ UNCHANGED <<rlVars, hbVars, chVars, dcVars, slVars, ivVars, bdVars, whVars, rmVars, wsVars, vzVars>>

\* The caller calls withRetry again.
RtReset ==
    /\ rtPc = "done"
    /\ rtPc' = "idle"
    /\ maxRetries' = 0
    /\ baseDelayMs' = 0
    /\ attempt' = 0
    /\ rtCalls' = <<>>
    /\ rtWaits' = <<>>
    /\ rtResult' = [kind |-> None]
    /\ UNCHANGED <<rlVars, hbVars, chVars, dcVars, slVars, ivVars, bdVars, whVars, rmVars, wsVars, vzVars>>

RtNext == RtStart \/ RtExhausted \/ RtCallOk \/ RtCallFail \/ RtWake \/ RtReset

(***************************************************************************)
(* Heartbeat scheduler                                                     *)
(***************************************************************************)
TICK_INTERVAL == 60

\* Bounds of the heartbeat model.
MaxTicks == 2
HbStartEpoch == 1000
HbAgents == <<"a1", "a2">>
HbAgentSet == {HbAgents[i] : i \in DOMAIN HbAgents}
\* heartbeat_interval values; NoInterval: the agent has none.
NoInterval == -1
HbIntervals == {30, 61}
\* Seconds a sleep may overrun.
HbJitter == {0, 1}

\* Content of a file that holds no number: absent, or opened and not yet written.
NoFile == -1
Empty == -2
NeverFired == -1

\* Characters of a prompt: Quote and Newline are the characters of those
\* names, Backslash the escape character; "a" and "s" stand for all others.
Quote == "\""
Newline == "\n"
Backslash == "\\"
\* The text $(cat heartbeat.md) can give: with a double quote, or of two
\* lines (the default prompt is the plain one).
HeartbeatFiles == {<<"a", Quote, "a">>, <<"a", Newline, "a">>}
\* "Quick status check: ...": a single line without quotes.
DEFAULT_PROMPT == <<"s">>

\* ${PROMPT//\"/\\\"}: every double quote gets a backslash before it; nothing
\* else is changed.
RECURSIVE EscapeQuotes(_)
EscapeQuotes(p) ==
    IF p = <<>> THEN <<>>
    ELSE IF Head(p) = Quote THEN <<Backslash, Quote>> \o EscapeQuotes(Tail(p))
    ELSE <<Head(p)>> \o EscapeQuotes(Tail(p))

\* Whether the characters between the quotes of "message": "..." are the body
\* of a JSON string: no bare double quote, no control character, and every
\* backslash followed by a character it may escape.
RECURSIVE JsonStringBody(_)
JsonStringBody(cs) ==
    IF cs = <<>> THEN TRUE
    ELSE IF Head(cs) = Backslash
         THEN /\ Len(cs) >= 2
              /\ cs[2] \in {Quote, Backslash}
              /\ JsonStringBody(Tail(Tail(cs)))
    ELSE IF Head(cs) \in {Quote, Newline} THEN FALSE
    ELSE JsonStringBody(Tail(cs))

\* The file the here-document writes, as a reader that parses it finds it:
\* the work item when the document is JSON, else a file that does not parse.
HbWorkItemFile(id, agent, prompt) ==
    IF JsonStringBody(EscapeQuotes(prompt))
    THEN [messageId |-> id, agent |-> agent, content |-> "json",
          channel |-> "heartbeat", command |-> "heartbeat"]
    ELSE [messageId |-> id, agent |-> None, content |-> "invalid",
          channel |-> None, command |-> None]

HbInit ==
    /\ hbPc = "boot"
    /\ hbClock = HbStartEpoch
    /\ hbTicks = 0
    /\ hbSettings = [a \in HbAgentSet |-> [interval |-> NoInterval, mode |-> "claude"]]
    /\ hbWebhook = FALSE
    /\ NOW = 0
    /\ hbTodo = <<>>
    /\ AGENT_ID = None
    /\ MESSAGE_ID = <<>>
    /\ hbRecord = [a \in HbAgentSet |-> NoFile]
    /\ PROMPT = <<>>
    /\ hbIncoming = {}
    /\ hbOutgoing = {}
    /\ hbPosts = {}
    /\ hbDecision = [agent |-> None]
    /\ hbFiredAt = [a \in HbAgentSet |-> NeverFired]
    /\ hbPartialSeen = {}

\* The script starts: settings.json and the environment are what they are,
\* and the record files are those an earlier run left (none, or one written
\* just before this start).
\* The mode and the record of an agent without a heartbeat_interval are never
\* read: they are left at the default and absent.
HbBoot ==
    /\ hbPc = "boot"
    /\ hbSettings' \in [HbAgentSet ->
            [interval : HbIntervals \cup {NoInterval}, mode : {"claude", "script"}]]
    /\ hbWebhook' \in BOOLEAN
    /\ hbRecord' \in [HbAgentSet -> {NoFile, hbClock}]
    /\ \A a \in HbAgentSet :
        hbSettings'[a].interval = NoInterval =>
            hbSettings'[a].mode = "claude" /\ hbRecord'[a] = NoFile
    /\ hbPc' = "sleep"
    /\ UNCHANGED <<hbClock, hbTicks, NOW, hbTodo, AGENT_ID, MESSAGE_ID, hbIncoming,
                   hbOutgoing, hbPosts, hbDecision, hbFiredAt,
                   hbPartialSeen>>
    /\ UNCHANGED PROMPT
    /\ UNCHANGED <<rlVars, rtVars, chVars, dcVars, slVars, ivVars, bdVars, whVars, rmVars, wsVars, vzVars>>

\* jq: the keys of .agents whose heartbeat_interval is not null, in order.
RECURSIVE AgentIds(_)
AgentIds(as) ==
    IF as = <<>> THEN <<>>
    ELSE IF hbSettings[Head(as)].interval # NoInterval
         THEN <<Head(as)>> \o AgentIds(Tail(as))
         ELSE AgentIds(Tail(as))

\* get_last_heartbeat: the content of the record file, 0 when there is none.
get_last_heartbeat(a) == IF hbRecord[a] = NoFile THEN 0 ELSE hbRecord[a]

\* Mutant: the due test skips when elapsed = interval ([ -le ] for [ -lt ]).
HbSkipLe(now, last, interval) == now - last <= interval

\* if [ "$ELAPSED" -lt "$INTERVAL" ]; then continue
HbSkip(now, last, interval) == now - last < interval

\* sleep "$TICK_INTERVAL"; NOW=$(date +%s); AGENT_IDS=...; an empty list
\* goes back to sleep.
HbSleep ==
    /\ hbPc = "sleep"
    /\ hbTicks < MaxTicks
    /\ \E j \in HbJitter : hbClock' = hbClock + TICK_INTERVAL + j
    /\ hbTicks' = hbTicks + 1
    /\ NOW' = hbClock'
    /\ hbTodo' = AgentIds(HbAgents)
    /\ hbPc' = IF AgentIds(HbAgents) = <<>> THEN "sleep" ELSE "check"
    /\ UNCHANGED <<hbSettings, hbWebhook, AGENT_ID, MESSAGE_ID, hbRecord, hbIncoming,
                   hbOutgoing, hbPosts, hbDecision, hbFiredAt,
                   hbPartialSeen>>
    /\ UNCHANGED PROMPT
    /\ UNCHANGED <<rlVars, rtVars, chVars, dcVars, slVars, ivVars, bdVars, whVars, rmVars, wsVars, vzVars>>

\* The for loop is over: back to sleep.
HbLoopEnd ==
    /\ hbPc = "check"
    /\ hbTodo = <<>>
    /\ hbPc' = "sleep"
    /\ AGENT_ID' = None
    /\ UNCHANGED <<hbClock, hbTicks, hbSettings, hbWebhook, NOW, hbTodo, MESSAGE_ID,
                   hbRecord, hbIncoming, hbOutgoing, hbPosts, hbDecision, hbFiredAt,
                   hbPartialSeen>>
    /\ UNCHANGED PROMPT
    /\ UNCHANGED <<rlVars, rtVars, chVars, dcVars, slVars, ivVars, bdVars, whVars, rmVars, wsVars, vzVars>>

\* The loop body up to the due test, for the next agent.
HbCheck ==
    /\ hbPc = "check"
    /\ hbTodo # <<>>
    /\ LET a == Head(hbTodo)
           INTERVAL == hbSettings[a].interval
           LAST == get_last_heartbeat(a)
           skip == HbSkip(NOW, LAST, INTERVAL)
       IN
        /\ AGENT_ID' = a
        /\ hbTodo' = Tail(hbTodo)
        /\ hbDecision' = [agent |-> a, now |-> NOW, last |-> LAST,
                          hadRecord |-> hbRecord[a] # NoFile,
                          prevFired |-> hbFiredAt[a],
                          interval |-> INTERVAL, fired |-> ~skip]
        /\ hbPc' = IF skip THEN "check" ELSE "fire"
        /\ hbFiredAt' = IF skip THEN hbFiredAt ELSE [hbFiredAt EXCEPT ![a] = NOW]
    /\ UNCHANGED <<hbClock, hbTicks, hbSettings, hbWebhook, NOW, MESSAGE_ID, hbRecord,
                   hbIncoming, hbOutgoing, hbPosts, hbPartialSeen>>
    /\ UNCHANGED PROMPT
    /\ UNCHANGED <<rlVars, rtVars, chVars, dcVars, slVars, ivVars, bdVars, whVars, rmVars, wsVars, vzVars>>

\* post_webhook: a POST is made only when WEBHOOK_URL is set; a failing
\* curl is logged.
post_webhook(a, mode, ok) ==
    IF hbWebhook THEN hbPosts \cup {[agent |-> a, mode |-> mode]}
    ELSE hbPosts

\* Script mode: heartbeat.sh is run when executable (its exit status is
\* discarded by "|| true") and its non-empty output is posted.
HbFireScript ==
    /\ hbPc = "fire"
    /\ hbSettings[AGENT_ID].mode = "script"
    /\ \E executable \in BOOLEAN, code \in {0, 1}, output \in {"", "text"},
          curlOk \in BOOLEAN :
        hbPosts' = IF executable /\ output # ""
                      THEN post_webhook(AGENT_ID, "script", curlOk)
                      ELSE hbPosts
    /\ hbPc' = "record"
    /\ UNCHANGED <<hbClock, hbTicks, hbSettings, hbWebhook, NOW, hbTodo, AGENT_ID,
                   MESSAGE_ID, hbRecord, hbIncoming, hbOutgoing, hbDecision,
                   hbFiredAt, hbPartialSeen>>
    /\ UNCHANGED PROMPT
    /\ UNCHANGED <<rlVars, rtVars, chVars, dcVars, slVars, ivVars, bdVars, whVars, rmVars, wsVars, vzVars>>

\* Claude mode: PROMPT=$(cat heartbeat.md) when the file exists, else the
\* default prompt.  Under "set -e" a failing cat ends the script.
HbReadPrompt ==
    /\ hbPc = "fire"
    /\ hbSettings[AGENT_ID].mode = "claude"
    /\ \E file \in {"absent", "readable", "unreadable"}, text \in HeartbeatFiles :
        /\ hbPc' = IF file = "unreadable" THEN "exited" ELSE "enqueue"
        /\ PROMPT' = IF file = "readable" THEN text
                     ELSE IF file = "absent" THEN DEFAULT_PROMPT
                     ELSE PROMPT
    /\ UNCHANGED <<hbClock, hbTicks, hbSettings, hbWebhook, NOW, hbTodo, AGENT_ID,
                   MESSAGE_ID, hbRecord, hbIncoming, hbOutgoing, hbPosts, hbDecision,
                   hbFiredAt, hbPartialSeen>>
    /\ UNCHANGED <<rlVars, rtVars, chVars, dcVars, slVars, ivVars, bdVars, whVars, rmVars, wsVars, vzVars>>

\* cat > "$QUEUE_INCOMING/${MESSAGE_ID}.json" << EOF, first half: the shell
\* opens the file in the incoming store itself, truncated; a failure to open
\* it ends the script ("set -e").
HbEnqueueOpen ==
    /\ hbPc = "enqueue"
    /\ LET id == <<"heartbeat", AGENT_ID, hbClock>> IN
       \E ok \in BOOLEAN :
        IF ok
        THEN /\ MESSAGE_ID' = id
             /\ hbIncoming' = hbIncoming \cup
                    {[messageId |-> id, agent |-> None, content |-> "partial",
                      channel |-> None, command |-> None]}
             /\ hbPc' = "enqueue_write"
        ELSE /\ hbPc' = "exited"
             /\ UNCHANGED <<MESSAGE_ID, hbIncoming>>
    /\ UNCHANGED <<hbClock, hbTicks, hbSettings, hbWebhook, NOW, hbTodo, AGENT_ID,
                   hbRecord, hbOutgoing, hbPosts, hbDecision, hbFiredAt,
                   hbPartialSeen>>
    /\ UNCHANGED PROMPT
    /\ UNCHANGED <<rlVars, rtVars, chVars, dcVars, slVars, ivVars, bdVars, whVars, rmVars, wsVars, vzVars>>

\* Second half: cat writes the JSON document into the open file.
HbEnqueueWrite ==
    /\ hbPc = "enqueue_write"
    /\ hbIncoming' = (hbIncoming \ {f \in hbIncoming : f.messageId = MESSAGE_ID})
          \cup {HbWorkItemFile(MESSAGE_ID, AGENT_ID, PROMPT)}
    /\ hbPc' = "wait"
    /\ UNCHANGED <<hbClock, hbTicks, hbSettings, hbWebhook, NOW, hbTodo, AGENT_ID,
                   MESSAGE_ID, hbRecord, hbOutgoing, hbPosts, hbDecision, hbFiredAt,
                   hbPartialSeen>>
    /\ UNCHANGED PROMPT
    /\ UNCHANGED <<rlVars, rtVars, chVars, dcVars, slVars, ivVars, bdVars, whVars, rmVars, wsVars, vzVars>>

\* sleep 5, then the response files of MESSAGE_ID: one with a non-empty
\* .message is posted and removed.
\* PROMPT is not read again before the next claude-mode fire assigns it: the
\* model forgets it here.
HbCollect ==
    /\ hbPc = "wait"
    /\ hbClock' = hbClock + 5
    /\ LET found == {r \in hbOutgoing : r.messageId = MESSAGE_ID /\ r.message # ""} IN
       \E curlOk \in BOOLEAN :
        /\ hbPosts' = IF found # {} THEN post_webhook(AGENT_ID, "claude", curlOk)
                      ELSE hbPosts
        /\ hbOutgoing' = hbOutgoing \ found
    /\ PROMPT' = <<>>
    /\ hbPc' = "record"
    /\ UNCHANGED <<hbTicks, hbSettings, hbWebhook, NOW, hbTodo, AGENT_ID, MESSAGE_ID,
                   hbRecord, hbIncoming, hbDecision, hbFiredAt, hbPartialSeen>>
    /\ UNCHANGED <<rlVars, rtVars, chVars, dcVars, slVars, ivVars, bdVars, whVars, rmVars, wsVars, vzVars>>

\* set_last_heartbeat, first half: "> file" opens the record file itself,
\* truncated, before date runs.
HbRecordOpen ==
    /\ hbPc = "record"
    /\ hbRecord' = [hbRecord EXCEPT ![AGENT_ID] = Empty]
    /\ hbPc' = "record_write"
    /\ UNCHANGED <<hbClock, hbTicks, hbSettings, hbWebhook, NOW, hbTodo, AGENT_ID,
                   MESSAGE_ID, hbIncoming, hbOutgoing, hbPosts, hbDecision, hbFiredAt,
                   hbPartialSeen>>
    /\ UNCHANGED PROMPT
    /\ UNCHANGED <<rlVars, rtVars, chVars, dcVars, slVars, ivVars, bdVars, whVars, rmVars, wsVars, vzVars>>

\* A set_last_heartbeat that records the epoch instead of the current time.
HbRecordWriteEpoch ==
    /\ hbPc = "record_write"
    /\ hbRecord' = [hbRecord EXCEPT ![AGENT_ID] = 0]
    /\ hbPc' = "check"
    /\ UNCHANGED <<hbClock, hbTicks, hbSettings, hbWebhook, NOW, hbTodo, AGENT_ID,
                   MESSAGE_ID, hbIncoming, hbOutgoing, hbPosts, hbDecision, hbFiredAt,
                   hbPartialSeen>>
    /\ UNCHANGED PROMPT
    /\ UNCHANGED <<rlVars, rtVars, chVars, dcVars, slVars, ivVars, bdVars, whVars, rmVars, wsVars, vzVars>>

\* Second half: date +%s writes the current time; the loop goes on.
HbRecordWrite ==
    /\ hbPc = "record_write"
    /\ hbRecord' = [hbRecord EXCEPT ![AGENT_ID] = hbClock]
    /\ hbPc' = "check"
    /\ UNCHANGED <<hbClock, hbTicks, hbSettings, hbWebhook, NOW, hbTodo, AGENT_ID,
                   MESSAGE_ID, hbIncoming, hbOutgoing, hbPosts, hbDecision, hbFiredAt,
                   hbPartialSeen>>
    /\ UNCHANGED PROMPT
    /\ UNCHANGED <<rlVars, rtVars, chVars, dcVars, slVars, ivVars, bdVars, whVars, rmVars, wsVars, vzVars>>

\* The visualizer's loadHeartbeatState(agentId), running in another process:
\* readFileSync of the record file; an empty file parses to NaN.
VizLoadHeartbeatState ==
    /\ \E a \in HbAgentSet :
        /\ hbRecord[a] = Empty
        /\ hbPartialSeen' = hbPartialSeen \cup {"record"}
    /\ UNCHANGED <<hbPc, hbClock, hbTicks, hbSettings, hbWebhook, NOW, hbTodo, AGENT_ID,
                   MESSAGE_ID, hbRecord, hbIncoming, hbOutgoing, hbPosts, hbDecision,
                   hbFiredAt>>
    /\ UNCHANGED PROMPT
    /\ UNCHANGED <<rlVars, rtVars, chVars, dcVars, slVars, ivVars, bdVars, whVars, rmVars, wsVars, vzVars>>

\* The queue processor, in another process, polls the incoming store: a file
\* that does not parse is skipped and tried again; a work item is consumed
\* and its response written to the outgoing store.
QpPoll ==
    /\ \E f \in hbIncoming :
        IF f.content = "partial"
        THEN /\ hbPartialSeen' = hbPartialSeen \cup {"incoming"}
             /\ UNCHANGED <<hbIncoming, hbOutgoing>>
        ELSE IF f.content = "invalid"
        THEN UNCHANGED <<hbIncoming, hbOutgoing, hbPartialSeen>>
        ELSE /\ hbIncoming' = hbIncoming \ {f}
             /\ hbOutgoing' = hbOutgoing \cup
                    {[messageId |-> f.messageId, message |-> "text"]}
             /\ UNCHANGED hbPartialSeen
    /\ UNCHANGED <<hbPc, hbClock, hbTicks, hbSettings, hbWebhook, NOW, hbTodo, AGENT_ID,
                   MESSAGE_ID, hbRecord, hbPosts, hbDecision, hbFiredAt>>
    /\ UNCHANGED PROMPT
    /\ UNCHANGED <<rlVars, rtVars, chVars, dcVars, slVars, ivVars, bdVars, whVars, rmVars, wsVars, vzVars>>

\* The heartbeat runs as the service tinyclaw-heartbeat: after the script has
\* exited, starting the service runs it again from the top, against the
\* settings, the queue and the record files the earlier run left.
HbRestart ==
    /\ hbPc = "exited"
    /\ hbTicks < MaxTicks
    /\ hbPc' = "sleep"
    /\ hbTodo' = <<>>
    /\ UNCHANGED <<hbClock, hbTicks, hbSettings, hbWebhook, NOW, AGENT_ID, MESSAGE_ID,
                   hbRecord, hbIncoming, hbOutgoing, hbPosts, hbDecision, hbFiredAt,
                   hbPartialSeen>>
    /\ UNCHANGED PROMPT
    /\ UNCHANGED <<rlVars, rtVars, chVars, dcVars, slVars, ivVars, bdVars, whVars, rmVars, wsVars, vzVars>>

HbNext ==
    \/ HbBoot \/ HbSleep \/ HbLoopEnd \/ HbCheck \/ HbFireScript \/ HbReadPrompt
    \/ HbEnqueueOpen \/ HbEnqueueWrite \/ HbCollect \/ HbRecordOpen \/ HbRecordWrite
    \/ HbRestart \/ VizLoadHeartbeatState \/ QpPoll

(***************************************************************************)
(* Team chain orchestrator (spec section 4.3; the consumer of its events   *)
(* is the visualizer's handleEvent)                                        *)
(***************************************************************************)
\* Bound: the longest member list of a team.
MaxChainLen == 3

Teams == {"t1", "t2"}
\* The agents a team's member list is drawn from, in the team's order.
Roster(t) == IF t = "t1" THEN <<"a", "b", "c", "d">> ELSE <<"d", "c", "b", "a">>
WorkMessages == {"X1", "X2"}
AgentOutputs == {"Y", "Z"}
Pending == "pending"

NoChain == [phase |-> "idle", members |-> <<>>, step |-> 0, original |-> None,
            current |-> None]

ChInit ==
    /\ chain = [t \in Teams |-> NoChain]
    /\ chEvents = [t \in Teams |-> <<>>]
    /\ chInvocations = [t \in Teams |-> <<>>]
    /\ chResponse = [t \in Teams |-> None]

Emit(t, e) == chEvents' = [chEvents EXCEPT ![t] = Append(@, e)]

\* Routing: a work item that targets team t; the member list is resolved and
\* chain-started is emitted.
ChRoute(t) ==
    /\ chain[t].phase = "idle"
    /\ \E n \in 1 .. MaxChainLen, msg \in WorkMessages :
        /\ n <= Len(Roster(t))
        /\ chain' = [chain EXCEPT ![t] =
              [phase |-> "step", members |-> SubSeq(Roster(t), 1, n), step |-> 1,
               original |-> msg, current |-> msg]]
        /\ Emit(t, [type |-> "team_chain_start", agents |-> SubSeq(Roster(t), 1, n)])
    /\ UNCHANGED <<chInvocations, chResponse>>
    /\ UNCHANGED <<rlVars, rtVars, hbVars, dcVars, slVars, ivVars, bdVars, whVars, rmVars, wsVars, vzVars>>

\* Mutant: every step is given the original message of the work item.
ChStepInputOriginal(t) == chain[t].original

\* The message a step is invoked with: the running current message.
ChStepInput(t) == chain[t].current

\* Mutant: a handoff is emitted after every step, the last one included.
ChHasNextAlways(t) == TRUE

\* Whether another member follows the current step.
ChHasNext(t) == chain[t].step < Len(chain[t].members)

\* Step(i): step-started is emitted and the Invocation Engine is called.
ChStepStart(t) ==
    /\ chain[t].phase = "step"
    /\ LET c == chain[t] IN
        /\ Emit(t, [type |-> "chain_step_start", agentId |-> c.members[c.step],
                    step |-> c.step])
        /\ chInvocations' = [chInvocations EXCEPT ![t] =
              Append(@, [agent |-> c.members[c.step], input |-> ChStepInput(t),
                         output |-> Pending])]
        /\ chain' = [chain EXCEPT ![t].phase = "invoking"]
    /\ UNCHANGED chResponse
    /\ UNCHANGED <<rlVars, rtVars, hbVars, dcVars, slVars, ivVars, bdVars, whVars, rmVars, wsVars, vzVars>>

\* The invocation returns: step-done is emitted with the output, which
\* becomes the current message.
ChStepDone(t) ==
    /\ chain[t].phase = "invoking"
    /\ LET c == chain[t] IN
       \E out \in AgentOutputs :
        /\ Emit(t, [type |-> "chain_step_done", agentId |-> c.members[c.step],
                    step |-> c.step])
        /\ chInvocations' = [chInvocations EXCEPT
              ![t] = [@ EXCEPT ![Len(chInvocations[t])].output = out]]
        /\ chain' = [chain EXCEPT ![t].current = out,
                                  ![t].phase = IF ChHasNext(t) THEN "handoff" ELSE "ending"]
    /\ UNCHANGED chResponse
    /\ UNCHANGED <<rlVars, rtVars, hbVars, dcVars, slVars, ivVars, bdVars, whVars, rmVars, wsVars, vzVars>>

\* Handoff(i -> i+1): emitted before advancing to the next member.
ChHandoff(t) ==
    /\ chain[t].phase = "handoff"
    /\ LET c == chain[t] IN
        /\ Emit(t, [type |-> "chain_handoff", fromAgent |-> c.members[c.step],
                    toAgent |-> IF c.step < Len(c.members)
                                THEN c.members[c.step + 1] ELSE None,
                    step |-> c.step])
        /\ chain' = [chain EXCEPT ![t].step = c.step + 1,
                                  ![t].phase = IF c.step < Len(c.members)
                                               THEN "step" ELSE "ending"]
    /\ UNCHANGED <<chInvocations, chResponse>>
    /\ UNCHANGED <<rlVars, rtVars, hbVars, dcVars, slVars, ivVars, bdVars, whVars, rmVars, wsVars, vzVars>>

\* Done: chain-ended is emitted with the member list and the last output
\* becomes the response of the work item.
ChEnd(t) ==
    /\ chain[t].phase = "ending"
    /\ Emit(t, [type |-> "team_chain_end", agents |-> chain[t].members])
    /\ chResponse' = [chResponse EXCEPT ![t] = chain[t].current]
    /\ chain' = [chain EXCEPT ![t].phase = "done"]
    /\ UNCHANGED chInvocations
    /\ UNCHANGED <<rlVars, rtVars, hbVars, dcVars, slVars, ivVars, bdVars, whVars, rmVars, wsVars, vzVars>>

\* The run is over: the ChainExecution record is dropped (Idle).
ChIdle(t) ==
    /\ chain[t].phase = "done"
    /\ chain' = [chain EXCEPT ![t] = NoChain]
    /\ chEvents' = [chEvents EXCEPT ![t] = <<>>]
    /\ chInvocations' = [chInvocations EXCEPT ![t] = <<>>]
    /\ chResponse' = [chResponse EXCEPT ![t] = None]
    /\ UNCHANGED <<rlVars, rtVars, hbVars, dcVars, slVars, ivVars, bdVars, whVars, rmVars, wsVars, vzVars>>

ChNext ==
    \E t \in Teams :
        \/ ChRoute(t) \/ ChStepStart(t) \/ ChStepDone(t) \/ ChHandoff(t)
        \/ ChEnd(t) \/ ChIdle(t)

(***************************************************************************)
(* Discord client: enqueueing work items and delivering responses          *)
(***************************************************************************)
\* cleanOldPending: 10 * 60 * 1000
PENDING_MAX_AGE_MS == 600000

\* Bounds of the Discord client model.
MaxDcRequests == 2
MaxDcAdvances == 1
\* Bound: the passes in which the sends of a response may break off after
\* its first chunks.
MaxDcBroken == 1
\* Amounts by which the clock moves.
DcSteps == {600000, 600001}

NoPending == [type |-> None]

DcInit ==
    /\ dcAdvances = 0
    /\ dcRequests = 0
    /\ dcInflight = {}
    /\ dcIncoming = {}
    /\ dcOutgoing = {}
    /\ pendingResponses = <<>>
    /\ processingOutgoingQueue = FALSE
    /\ dcPass = [files |-> {}, cur |-> NoPending, active |-> 0, ended |-> "none"]
    /\ dcReplies = {}
    /\ dcOrigin = <<>>
    /\ dcSent = {}
    /\ dcChunks = <<>>
    /\ dcForeign = {}
    /\ dcDropped = {}

\* Time passes.
DcAdvance ==
    /\ dcAdvances < MaxDcAdvances
    /\ \E d \in DcSteps : dateNow' = dateNow + d
    /\ dcAdvances' = dcAdvances + 1
    /\ UNCHANGED <<claudeSpawnTimestamps, rlCalls, rlAdvances, rlAdmitted, rlLast>>
    /\ UNCHANGED <<dcRequests, dcInflight, dcIncoming, dcOutgoing, pendingResponses,
                   processingOutgoingQueue, dcPass, dcReplies, dcOrigin, dcSent, dcForeign, dcChunks,
                   dcDropped>>
    /\ UNCHANGED <<rtVars, hbVars, chVars, slVars, ivVars, bdVars, whVars, rmVars, wsVars, vzVars>>

\* generateMessageId(): `${Date.now()}_${random}`, the random part taken as
\* never repeating within one millisecond.
generateMessageId == <<dateNow, Cardinality(DOMAIN dcOrigin) + 1>>

Put(map, k, v) == [x \in DOMAIN map \cup {k} |-> IF x = k THEN v ELSE map[x]]
Drop(map, ks) == [x \in DOMAIN map \ ks |-> map[x]]

\* cleanOldPending(): entries older than 10 minutes are deleted.
cleanOldPending(pending, now) ==
    Drop(pending, {id \in DOMAIN pending :
                     pending[id].timestamp < now - PENDING_MAX_AGE_MS})

\* Mutant: the work item file is written and the pending entry left for a
\* later turn.
DcEnqueueUnregistered(req) ==
    LET id == generateMessageId IN
    /\ dcIncoming' = dcIncoming \cup {id}
    /\ dcOrigin' = Put(dcOrigin, id, req)
    /\ pendingResponses' = cleanOldPending(pendingResponses, dateNow)

\* The work item file is written, the pending entry set, old entries cleaned:
\* one synchronous stretch of the handler.
DcEnqueue(req) ==
    LET id == generateMessageId IN
    /\ dcIncoming' = dcIncoming \cup {id}
    /\ dcOrigin' = Put(dcOrigin, id, req)
    /\ pendingResponses' =
          cleanOldPending(
              Put(pendingResponses, id,
                  [type |-> req.type, req |-> req, timestamp |-> dateNow]),
              dateNow)

\* MessageCreate: an authorized plain message with content is queued.
DcMessageCreate ==
    /\ dcRequests < MaxDcRequests
    /\ dcRequests' = dcRequests + 1
    /\ DcEnqueue([type |-> "message", n |-> dcRequests + 1])
    /\ UNCHANGED <<dcAdvances, dcInflight, dcOutgoing, processingOutgoingQueue, dcPass,
                   dcReplies, dcSent, dcForeign, dcChunks, dcDropped>>
    /\ UNCHANGED <<rlVars, rtVars, hbVars, chVars, slVars, ivVars, bdVars, whVars, rmVars, wsVars, vzVars>>

\* InteractionCreate for a Claude-spawning command, up to its first await:
\* the rate limit is checked; a rejected command is answered at once.
DcSlashBegin ==
    /\ dcRequests < MaxDcRequests
    /\ dcRequests' = dcRequests + 1
    /\  LET r == checkRateLimit(claudeSpawnTimestamps, dateNow)
            req == [type |-> "interaction", n |-> dcRequests + 1]
        IN
        /\ claudeSpawnTimestamps' = r.ts
        /\ IF r.ok
           THEN /\ dcInflight' = dcInflight \cup {req}
                /\ UNCHANGED dcReplies
           ELSE /\ dcReplies' = dcReplies \cup {[req |-> req, text |-> "rate_limited"]}
                /\ UNCHANGED dcInflight
    /\ UNCHANGED <<dateNow, rlCalls, rlAdvances, rlAdmitted, rlLast>>
    /\ UNCHANGED <<dcAdvances, dcIncoming, dcOutgoing, pendingResponses,
                   processingOutgoingQueue, dcPass, dcOrigin, dcSent, dcForeign, dcChunks, dcDropped>>
    /\ UNCHANGED <<rtVars, hbVars, chVars, slVars, ivVars, bdVars, whVars, rmVars, wsVars, vzVars>>

\* The rest of the handler once deferReply and the prompt builder have
\* resolved: writeQueueMessage, pendingResponses.set, cleanOldPending.
DcSlashEnqueue ==
    /\ \E req \in dcInflight :
        /\ dcInflight' = dcInflight \ {req}
        /\ DcEnqueue(req)
    /\ UNCHANGED <<dcAdvances, dcRequests, dcOutgoing, processingOutgoingQueue, dcPass,
                   dcReplies, dcSent, dcForeign, dcChunks, dcDropped>>
    /\ UNCHANGED <<rlVars, rtVars, hbVars, chVars, slVars, ivVars, bdVars, whVars, rmVars, wsVars, vzVars>>

\* The prompt builder (or deferReply) rejects: the error is reported with
\* editReply and nothing is queued.
DcSlashFail ==
    /\ \E req \in dcInflight :
        /\ dcInflight' = dcInflight \ {req}
        /\ dcReplies' = dcReplies \cup {[req |-> req, text |-> "error"]}
    /\ UNCHANGED <<dcAdvances, dcRequests, dcIncoming, dcOutgoing, pendingResponses,
                   processingOutgoingQueue, dcPass, dcOrigin, dcSent, dcForeign, dcChunks, dcDropped>>
    /\ UNCHANGED <<rlVars, rtVars, hbVars, chVars, slVars, ivVars, bdVars, whVars, rmVars, wsVars, vzVars>>

\* The queue processor, in another process, consumes a work item and writes
\* its response file, carrying the item's messageId, to the outgoing store;
\* chunks is the number of pieces splitMessage will make of its text.
QpWrite(chunks) ==
    /\ \E id \in dcIncoming :
        /\ dcIncoming' = dcIncoming \ {id}
        /\ dcOutgoing' = dcOutgoing \cup {id}
        /\ dcChunks' = Put(dcChunks, id, [i \in 1..chunks |-> 0])
    /\ UNCHANGED <<dcAdvances, dcRequests, dcInflight, pendingResponses,
                   processingOutgoingQueue, dcPass, dcReplies, dcOrigin, dcSent,
                   dcForeign, dcDropped>>
    /\ UNCHANGED <<rlVars, rtVars, hbVars, chVars, slVars, ivVars, bdVars, whVars, rmVars, wsVars, vzVars>>

\* A response of at most 2000 characters: text.length <= maxLength.
QpRespond == QpWrite(1)

\* A response of more than 2000 characters, split in two.
QpRespondLong == QpWrite(2)

\* Mutant: the response goes to whichever request is pending.
DcLookupAny(messageId) ==
    IF DOMAIN pendingResponses = {} THEN NoPending
    ELSE pendingResponses[CHOOSE k \in DOMAIN pendingResponses :
                              \A j \in DOMAIN pendingResponses : k[2] <= j[2]]

\* const pending = pendingResponses.get(messageId);
DcLookup(messageId) ==
    IF messageId \in DOMAIN pendingResponses THEN pendingResponses[messageId]
    ELSE NoPending

\* The files other writers leave in the outgoing store: the response of a
\* heartbeat work item (heartbeat_<agent>_<time>_<pid>.json) and a file
\* with the Discord prefix that is no .json file.
OtherFiles ==
    { [prefix |-> "heartbeat_", id |-> <<0, 0>>, ext |-> ".json"],
      [prefix |-> "discord_", id |-> <<0, -1>>, ext |-> ".tmp"] }

\* The queue processor writes the response of a Discord work item as
\* discord_<messageId>.json.
DcFileName(id) == [prefix |-> "discord_", id |-> id, ext |-> ".json"]

\* fs.readdirSync(QUEUE_OUTGOING)
DcListing == {DcFileName(id) : id \in dcOutgoing} \cup dcForeign

\* Mutant: every file of the store is taken for a response.
DcIsAnyFile(f) == TRUE

\* f.startsWith('discord_') && f.endsWith('.json')
DcIsResponseFile(f) == f.prefix = "discord_" /\ f.ext = ".json"

\* Another writer puts a file into the outgoing store, or its owner takes
\* it out again.
OtherFileAppears ==
    /\ \E name \in OtherFiles \ dcForeign : dcForeign' = dcForeign \cup {name}
    /\ UNCHANGED <<dcAdvances, dcRequests, dcInflight, dcIncoming, dcOutgoing,
                   pendingResponses, processingOutgoingQueue, dcPass, dcReplies,
                   dcOrigin, dcSent, dcChunks, dcDropped>>
    /\ UNCHANGED <<rlVars, rtVars, hbVars, chVars, slVars, ivVars, bdVars, whVars, rmVars, wsVars, vzVars>>

OtherFileCollected ==
    /\ \E name \in dcForeign : dcForeign' = dcForeign \ {name}
    /\ UNCHANGED <<dcAdvances, dcRequests, dcInflight, dcIncoming, dcOutgoing,
                   pendingResponses, processingOutgoingQueue, dcPass, dcReplies,
                   dcOrigin, dcSent, dcChunks, dcDropped>>
    /\ UNCHANGED <<rlVars, rtVars, hbVars, chVars, slVars, ivVars, bdVars, whVars, rmVars, wsVars, vzVars>>

\* Mutant: the trigger never finds a pass in progress.
DcBusyNever == FALSE

\* if (processingOutgoingQueue) return;
DcBusy == processingOutgoingQueue

\* A trigger of checkOutgoingQueue that finds no pass in progress: the flag
\* is set and the directory listed.  When readdirSync throws, the outer
\* catch logs and finally clears the flag in the same turn.
DcPassStart ==
    /\ ~DcBusy
    /\ \E readdir \in {"ok", "throws"} :
        IF readdir = "ok"
        THEN /\ processingOutgoingQueue' = TRUE
             /\ dcPass' = [files |-> {name.id : name \in
                                        {f \in DcListing : DcIsResponseFile(f)}},
                           cur |-> NoPending,
                           active |-> dcPass.active + 1, ended |-> "none"]
        ELSE /\ processingOutgoingQueue' = FALSE
             /\ dcPass' = [files |-> {}, cur |-> NoPending,
                           active |-> dcPass.active, ended |-> "error"]
    /\ UNCHANGED <<dcAdvances, dcRequests, dcInflight, dcIncoming, dcOutgoing,
                   pendingResponses, dcReplies, dcOrigin, dcSent, dcForeign, dcChunks, dcDropped>>
    /\ UNCHANGED <<rlVars, rtVars, hbVars, chVars, slVars, ivVars, bdVars, whVars, rmVars, wsVars, vzVars>>

\* The loop body for the next file, up to the first send: without a pending
\* entry the file is removed; with one, the send is awaited.
DcPassFile ==
    /\ processingOutgoingQueue
    /\ dcPass.cur = NoPending
    /\ \E file \in dcPass.files :
        LET pending == DcLookup(file) IN
        IF pending = NoPending
        THEN /\ dcOutgoing' = dcOutgoing \ {file}
             /\ dcForeign' = {name \in dcForeign : name.id # file}
             /\ dcDropped' = dcDropped \cup {[messageId |-> file, why |-> "no_pending"]}
             /\ dcPass' = [dcPass EXCEPT !.files = dcPass.files \ {file}]
        ELSE /\ dcPass' = [dcPass EXCEPT
                              !.files = dcPass.files \ {file},
                              !.cur = [type |-> pending.type, req |-> pending.req,
                                       messageId |-> file]]
             /\ UNCHANGED <<dcOutgoing, dcForeign, dcDropped>>
    /\ UNCHANGED <<dcAdvances, dcRequests, dcInflight, dcIncoming, pendingResponses,
                   processingOutgoingQueue, dcReplies, dcOrigin, dcSent, dcChunks>>
    /\ UNCHANGED <<rlVars, rtVars, hbVars, chVars, slVars, ivVars, bdVars, whVars, rmVars, wsVars, vzVars>>

\* The sends of the chunks settle: reply or editReply for the first chunk,
\* channel.send or followUp for the others, each awaited in turn.  The first
\* send that throws ends the loop body: sent chunks stay sent.  An error of
\* an interaction is caught and the entry and the file are removed all the
\* same; an error of a reply to a message leaves both for the next pass.
DcSendDone ==
    /\ processingOutgoingQueue
    /\ dcPass.cur # NoPending
    /\ LET cur == dcPass.cur
           sends == dcChunks[cur.messageId]
       IN
       \E sent \in 0..Len(sends) :
        LET ok == sent = Len(sends) IN
        /\ (sent > 0 /\ ~ok) => sends[1] < MaxDcBroken
        /\ dcChunks' = [dcChunks EXCEPT ![cur.messageId] =
                           [i \in 1..Len(sends) |->
                               IF i <= sent THEN sends[i] + 1 ELSE sends[i]]]
        /\ dcSent' = IF ok
                     THEN dcSent \cup {[messageId |-> cur.messageId, to |-> cur.req]}
                     ELSE dcSent
        /\ IF ok \/ cur.type = "interaction"
           THEN /\ pendingResponses' = Drop(pendingResponses, {cur.messageId})
                /\ dcOutgoing' = dcOutgoing \ {cur.messageId}
                /\ dcDropped' = IF ok THEN dcDropped
                                ELSE dcDropped \cup
                                   {[messageId |-> cur.messageId, why |-> "send_error"]}
           ELSE UNCHANGED <<pendingResponses, dcOutgoing, dcDropped>>
    /\ dcPass' = [dcPass EXCEPT !.cur = NoPending]
    /\ UNCHANGED <<dcAdvances, dcRequests, dcInflight, dcIncoming,
                   processingOutgoingQueue, dcReplies, dcOrigin, dcForeign>>
    /\ UNCHANGED <<rlVars, rtVars, hbVars, chVars, slVars, ivVars, bdVars, whVars, rmVars, wsVars, vzVars>>

\* The loop is over: finally { processingOutgoingQueue = false }.
DcPassEnd ==
    /\ processingOutgoingQueue
    /\ dcPass.cur = NoPending
    /\ dcPass.files = {}
    /\ processingOutgoingQueue' = FALSE
    /\ dcPass' = [dcPass EXCEPT !.active = dcPass.active - 1, !.ended = "normal"]
    /\ UNCHANGED <<dcAdvances, dcRequests, dcInflight, dcIncoming, dcOutgoing,
                   pendingResponses, dcReplies, dcOrigin, dcSent, dcForeign, dcChunks, dcDropped>>
    /\ UNCHANGED <<rlVars, rtVars, hbVars, chVars, slVars, ivVars, bdVars, whVars, rmVars, wsVars, vzVars>>

DcNext ==
    \/ DcAdvance \/ DcMessageCreate \/ DcSlashBegin \/ DcSlashEnqueue \/ DcSlashFail
    \/ QpRespond \/ DcPassStart \/ DcPassFile \/ DcSendDone \/ DcPassEnd

\* The client with responses of any length.
DcDeliveryNext == DcNext \/ QpRespondLong

\* The outgoing store: the responses to plain messages, the passes of the
\* client over the store, and its other users.
DcStoreNext ==
    \/ DcMessageCreate \/ QpRespond
    \/ DcPassStart \/ DcPassFile \/ DcSendDone \/ DcPassEnd
    \/ OtherFileAppears \/ OtherFileCollected

(***************************************************************************)
(* Discord client: authorization, command dispatch, prompt building        *)
(***************************************************************************)
\* Bounds of the command dispatch model: work items queued, clock moves.
MaxSlQueued == 2
MaxSlAdvances == 1
\* Amounts by which the clock moves.
SlSteps == {60000}

Users == {"u1", "u2"}
InstantCommands == {"status", "help"}
SpawningCommands == {"regime", "performance", "strategies", "activate", "research", "ask"}
\* Commands whose argument is validated by the prompt builder.
ValidatedCommands == {"activate", "research", "ask"}
Commands == InstantCommands \cup SpawningCommands \cup {"reset", "other"}
MessageTexts == {"hello", "!reset", "!agent", ""}

NoRequest == [kind |-> None]

SlInit ==
    /\ slPc = "boot"
    /\ allowedUserId = None
    /\ resetFlag = FALSE
    /\ conversationLog = 0
    /\ slAdvances = 0
    /\ slCur = NoRequest
    /\ slReply = None

\* The settings file and the environment either name the allowed user or
\* do not.
SlConfigure ==
    /\ slPc = "boot"
    /\ slPc' = "run"
    /\ allowedUserId' \in {None, "u1"}
    /\ UNCHANGED <<resetFlag, conversationLog, slAdvances, slCur, slReply>>
    /\ UNCHANGED <<rlVars, rtVars, hbVars, chVars, dcVars, ivVars, bdVars, whVars, rmVars, wsVars, vzVars>>

\* Time passes.
SlAdvance ==
    /\ slPc = "run"
    /\ slCur = NoRequest
    /\ slAdvances < MaxSlAdvances
    /\ \E d \in SlSteps : dateNow' = dateNow + d
    /\ slAdvances' = slAdvances + 1
    /\ UNCHANGED <<claudeSpawnTimestamps, rlCalls, rlAdvances, rlAdmitted, rlLast>>
    /\ UNCHANGED <<slPc, allowedUserId, resetFlag, conversationLog, slCur, slReply>>
    /\ UNCHANGED <<rtVars, hbVars, chVars, dcVars, ivVars, bdVars, whVars, rmVars, wsVars, vzVars>>

\* Discord emits an event: a chat input command with its argument (valid or
\* not, its prompt buildable or not), or a message of a user in a direct
\* channel.
SlReceive ==
    /\ slPc = "run"
    /\ slCur = NoRequest
    /\ \/ \E user \in Users, cmd \in Commands, valid \in BOOLEAN, built \in BOOLEAN :
            /\ cmd \notin ValidatedCommands => valid
            /\ cmd \notin SpawningCommands \/ ~valid => ~built
            /\ built => Cardinality(DOMAIN dcOrigin) < MaxSlQueued
            /\ slCur' = [kind |-> "interaction", user |-> user, cmd |-> cmd,
                         valid |-> valid, built |-> built]
       \/ \E user \in Users, text \in MessageTexts :
            /\ text = "hello" => Cardinality(DOMAIN dcOrigin) < MaxSlQueued
            /\ slCur' = [kind |-> "message", user |-> user, cmd |-> text,
                         valid |-> TRUE, built |-> TRUE]
    /\ slReply' = None
    /\ UNCHANGED <<slPc, allowedUserId, resetFlag, conversationLog, slAdvances>>
    /\ UNCHANGED <<rlVars, rtVars, hbVars, chVars, dcVars, ivVars, bdVars, whVars, rmVars, wsVars, vzVars>>

\* Mutant: without a configured user id every sender is let in.
isAuthorizedFailOpen(userId) ==
    IF allowedUserId = None THEN "ok"
    ELSE IF userId = allowedUserId THEN "ok" ELSE "unauthorized"

\* isAuthorized(userId): throws when no user id is configured, else compares.
isAuthorized(userId) ==
    IF allowedUserId = None THEN "unconfigured"
    ELSE IF userId = allowedUserId THEN "ok" ELSE "unauthorized"

\* The requester of the next work item, were one queued now.
SlRequester(type) == [type |-> type, n |-> Cardinality(DOMAIN dcOrigin) + 1]

\* A Claude-spawning command after deferReply: the prompt builder validates
\* the argument, logs the conversation and builds the prompt; then
\* writeQueueMessage, pendingResponses.set and cleanOldPending.  /research
\* and /ask clean old entries also when the builder throws.
SlBuild(cmd, valid, built) ==
    LET cleaned == IF cmd \in {"research", "ask"}
                   THEN cleanOldPending(pendingResponses, dateNow)
                   ELSE pendingResponses
    IN
    IF ~valid
    THEN /\ pendingResponses' = cleaned
         /\ UNCHANGED <<conversationLog, dcIncoming, dcOrigin>>
    ELSE /\ conversationLog' = conversationLog + 1
         /\ IF built
            THEN DcEnqueue(SlRequester("interaction"))
            ELSE /\ pendingResponses' = cleaned
                 /\ UNCHANGED <<dcIncoming, dcOrigin>>

\* Mutant: a rate-limited command is answered and its work item queued all
\* the same.
SlSpawnQueued(cmd, valid, built) ==
    LET r == checkRateLimit(claudeSpawnTimestamps, dateNow) IN
    /\ claudeSpawnTimestamps' = r.ts
    /\ SlBuild(cmd, valid, built)
    /\ slReply' = IF ~r.ok THEN "rate_limited"
                  ELSE IF valid /\ built THEN "queued" ELSE "error"

\* The case of a Claude-spawning command: checkRateLimit, then either the
\* rate-limit reply or deferReply and the rest.
SlSpawn(cmd, valid, built) ==
    LET r == checkRateLimit(claudeSpawnTimestamps, dateNow) IN
    /\ claudeSpawnTimestamps' = r.ts
    /\ IF r.ok
       THEN SlBuild(cmd, valid, built)
       ELSE UNCHANGED <<pendingResponses, conversationLog, dcIncoming, dcOrigin>>
    /\ slReply' = IF ~r.ok THEN "rate_limited"
                  ELSE IF valid /\ built THEN "queued" ELSE "error"

\* The InteractionCreate handler.
SlInteraction ==
    /\ slCur.kind = "interaction"
    /\ slCur' = NoRequest
    /\ LET auth == isAuthorized(slCur.user)
           cmd == slCur.cmd
       IN
       IF auth # "ok"
       THEN /\ slReply' = auth
            /\ UNCHANGED <<claudeSpawnTimestamps, resetFlag, pendingResponses,
                           conversationLog, dcIncoming, dcOrigin>>
       ELSE IF cmd \in SpawningCommands
       THEN /\ SlSpawn(cmd, slCur.valid, slCur.built)
            /\ UNCHANGED resetFlag
       ELSE /\ slReply' = IF cmd = "other" THEN "unknown" ELSE "text"
            /\ resetFlag' = (resetFlag \/ cmd = "reset")
            /\ UNCHANGED <<claudeSpawnTimestamps, pendingResponses,
                           conversationLog, dcIncoming, dcOrigin>>
    /\ UNCHANGED <<dateNow, rlCalls, rlAdvances, rlAdmitted, rlLast>>
    /\ UNCHANGED <<dcAdvances, dcRequests, dcInflight, dcOutgoing,
                   processingOutgoingQueue, dcPass, dcReplies, dcSent, dcForeign, dcChunks, dcDropped>>
    /\ UNCHANGED <<slPc, allowedUserId, slAdvances>>
    /\ UNCHANGED <<rtVars, hbVars, chVars, ivVars, bdVars, whVars, rmVars, wsVars, vzVars>>

\* A MessageCreate handler that asks the limiter before it queues.
SlMessageLimited ==
    /\ slCur.kind = "message"
    /\ slCur' = NoRequest
    /\ LET auth == isAuthorized(slCur.user)
           text == slCur.cmd
           r == checkRateLimit(claudeSpawnTimestamps, dateNow)
           queued == auth = "ok" /\ text = "hello" /\ r.ok
       IN
       /\ slReply' = IF auth # "ok" \/ text = "" THEN None
                     ELSE IF queued THEN "queued" ELSE "text"
       /\ resetFlag' = (resetFlag \/ (auth = "ok" /\ text = "!reset"))
       /\ IF queued
          THEN DcEnqueue(SlRequester("message"))
          ELSE UNCHANGED <<dcIncoming, dcOrigin, pendingResponses>>
    /\ UNCHANGED <<dcAdvances, dcRequests, dcInflight, dcOutgoing,
                   processingOutgoingQueue, dcPass, dcReplies, dcSent, dcForeign, dcChunks, dcDropped>>
    /\ UNCHANGED <<slPc, allowedUserId, conversationLog, slAdvances>>
    /\ claudeSpawnTimestamps' =
           IF isAuthorized(slCur.user) = "ok" /\ slCur.cmd = "hello"
           THEN checkRateLimit(claudeSpawnTimestamps, dateNow).ts
           ELSE claudeSpawnTimestamps
    /\ UNCHANGED <<dateNow, rlCalls, rlAdvances, rlAdmitted, rlLast>>
    /\ UNCHANGED <<rtVars, hbVars, chVars, ivVars, bdVars, whVars, rmVars, wsVars, vzVars>>

\* The MessageCreate handler.
SlMessage ==
    /\ slCur.kind = "message"
    /\ slCur' = NoRequest
    /\ LET auth == isAuthorized(slCur.user)
           text == slCur.cmd
           queued == auth = "ok" /\ text = "hello"
       IN
       /\ slReply' = IF auth # "ok" \/ text = "" THEN None
                     ELSE IF queued THEN "queued" ELSE "text"
       /\ resetFlag' = (resetFlag \/ (auth = "ok" /\ text = "!reset"))
       /\ IF queued
          THEN DcEnqueue(SlRequester("message"))
          ELSE UNCHANGED <<dcIncoming, dcOrigin, pendingResponses>>
    /\ UNCHANGED <<dcAdvances, dcRequests, dcInflight, dcOutgoing,
                   processingOutgoingQueue, dcPass, dcReplies, dcSent, dcForeign, dcChunks, dcDropped>>
    /\ UNCHANGED <<slPc, allowedUserId, conversationLog, slAdvances>>
    /\ UNCHANGED <<rlVars, rtVars, hbVars, chVars, ivVars, bdVars, whVars, rmVars, wsVars, vzVars>>

SlNext == SlConfigure \/ SlAdvance \/ SlReceive \/ SlInteraction \/ SlMessage

(***************************************************************************)
(* Invocation engine                                                       *)
(***************************************************************************)
REMOTE_TIMEOUT_MS == 600000
LOCAL_TIMEOUT_MS == 300000

\* Bound: lines in the output of an agent process.
MaxLines == 2

IvAgents == {"coder", "researcher"}
IvModels == {None, "opus"}
IvMessages == {"hello", "-c"}
ExitCodes == {0, 1}
Stderrs == {"", " ", " boom "}

\* String.prototype.trim on the captured stderr.
Trim(s) == CASE s = " " -> "" [] s = " boom " -> "boom" [] OTHER -> s

\* One line of output: whether JSON.parse accepts it and, if so, its type,
\* its item.type and its item.text.
AgentMessage(t) ==
    [json |-> TRUE, type |-> "item.completed", item |-> "agent_message", text |-> t]
JsonLines ==
    { AgentMessage("A"), AgentMessage("B"), AgentMessage(""),
      [json |-> TRUE, type |-> "item.completed", item |-> "reasoning", text |-> "R"],
      [json |-> TRUE, type |-> "turn.completed", item |-> None, text |-> None],
      [json |-> FALSE, type |-> None, item |-> None, text |-> "not json"] }
PlainLines == { [json |-> FALSE, type |-> None, item |-> None, text |-> "answer"] }
Outputs(lines) == UNION {[1..n -> lines] : n \in 0..MaxLines}

CODEX_FALLBACK == "Sorry, I could not generate a response from Codex."

\* The static model table; a name it does not know, and no name, pass
\* through.
resolveClaudeModel(model) == IF model = "opus" THEN "claude-opus" ELSE model
resolveCodexModel(model) == model

NoCall == [agentId |-> None]
NoExit == [code |-> -1]
IvPending == [kind |-> "pending"]
IvResolve(v) == [kind |-> "resolve", value |-> v]
IvReject(name, text, code) ==
    [kind |-> "reject", error |-> [name |-> name, text |-> text, code |-> code]]

IvInit ==
    /\ ivPc = "idle"
    /\ ivCall = NoCall
    /\ ivSpawned = <<>>
    /\ ivChild = "none"
    /\ ivKills = 0
    /\ ivTimer = 0
    /\ ivExit = NoExit
    /\ ivCmdResult = IvPending
    /\ ivResult = IvPending

\* Mutant: only the host is required of a remote agent.
IvMissingRemoteHostOnly(call) == call.remote_host = None

\* !remoteHost || !remoteUser || !remoteRoot
IvMissingRemote(call) ==
    \/ call.remote_host = None
    \/ call.remote_user = None
    \/ call.remote_project_root = None

\* Mutant: the conversation is continued unless the message asks not to.
IvContinueByMessage(call) == call.message # "-c"

\* !shouldReset: continueConversation, shouldResume.
IvContinue(call) == ~call.shouldReset

WithModel(modelId) == IF modelId # None THEN <<"--model", modelId>> ELSE <<>>

\* The arguments built for Claude, before the prompt.
claudeArgs(call) ==
    <<"--dangerously-skip-permissions">>
        \o WithModel(resolveClaudeModel(call.model))
        \o (IF IvContinue(call) THEN <<"-c">> ELSE <<>>)

\* The arguments built for Codex, the message last.
codexArgs(call) ==
    <<"exec">>
        \o (IF IvContinue(call) THEN <<"resume", "--last">> ELSE <<>>)
        \o WithModel(resolveCodexModel(call.model))
        \o <<"--skip-git-repo-check", "--dangerously-bypass-approvals-and-sandbox",
             "--json", call.message>>

IsCodex(call) == call.invoke_mode # "remote" /\ call.provider = "openai"

\* The process runCommand spawns for a local agent.
LocalProcess(call) ==
    IF IsCodex(call)
    THEN [command |-> "codex", role |-> "agent", args |-> codexArgs(call),
          stdin |-> None]
    ELSE [command |-> "claude", role |-> "agent",
          args |-> claudeArgs(call) \o <<"-p", call.message>>, stdin |-> None]

\* Step 1 of runCommandRemote: ssh user@host 'cat > tmpFile', the prompt on
\* its stdin.
RemoteWriteProcess(call) ==
    [command |-> "ssh", role |-> "write", args |-> <<"cat > tmpFile">>,
     stdin |-> call.message]

\* Step 3 of runCommandRemote: ssh user@host '... claude args -p "$PROMPT"'.
RemoteExecProcess(call) ==
    [command |-> "ssh", role |-> "agent",
     args |-> claudeArgs(call) \o <<"-p", "$PROMPT">>, stdin |-> None]

IsAgentMessage(l) == l.json /\ l.type = "item.completed" /\ l.item = "agent_message"

RECURSIVE CodexLoopFirst(_, _)
CodexLoopFirst(lines, response) ==
    IF lines = <<>> THEN response
    ELSE CodexLoopFirst(Tail(lines),
                        IF IsAgentMessage(Head(lines)) /\ response = ""
                        THEN Head(lines).text ELSE response)

\* Mutant: the first agent_message record is the one kept.
CodexParseFirst(lines) ==
    LET response == CodexLoopFirst(lines, "") IN
    IF response = "" THEN CODEX_FALLBACK ELSE response

\* for (const line of lines) { try { ... response = json.item.text } catch {} }
RECURSIVE CodexLoop(_, _)
CodexLoop(lines, response) ==
    IF lines = <<>> THEN response
    ELSE CodexLoop(Tail(lines),
                   IF IsAgentMessage(Head(lines)) THEN Head(lines).text ELSE response)

\* return response || 'Sorry, I could not generate a response from Codex.'
CodexParse(lines) ==
    LET response == CodexLoop(lines, "") IN
    IF response = "" THEN CODEX_FALLBACK ELSE response

\* Mutant: stderr is reported as captured.
IvExitErrorRaw(code, stderr) ==
    IF stderr # "" THEN IvReject("stderr", stderr, code) ELSE IvReject("exit", "", code)

\* stderr.trim() || `Command exited with code ${code}`
IvExitError(code, stderr) ==
    IF Trim(stderr) # "" THEN IvReject("stderr", Trim(stderr), code)
    ELSE IvReject("exit", "", code)

\* What invokeAgent makes of the settled command.
IvAfterCommand(call, cmd) ==
    IF cmd.kind = "resolve" /\ IsCodex(call) THEN IvResolve(CodexParse(cmd.value))
    ELSE cmd

\* invokeAgent up to its first await.
IvInvoke ==
    /\ ivPc = "idle"
    /\ \E agentId \in IvAgents, mode \in {None, "remote"}, provider \in {None, "openai"},
          host \in {None, "set"}, user \in {None, "set"}, root \in {None, "set"},
          model \in IvModels, shouldReset \in BOOLEAN, message \in IvMessages :
        LET call == [agentId |-> agentId, invoke_mode |-> mode, provider |-> provider,
                     remote_host |-> host, remote_user |-> user,
                     remote_project_root |-> root, model |-> model,
                     shouldReset |-> shouldReset, message |-> message]
        IN
        /\ mode = None => host = None /\ user = None /\ root = None
        /\ mode = "remote" => provider = None
        /\ ivCall' = call
        /\ IF mode = "remote" /\ IvMissingRemote(call)
           THEN /\ ivResult' = IvReject("config", agentId, 0)
                /\ ivPc' = "done"
                /\ UNCHANGED <<ivSpawned, ivChild, ivTimer>>
           ELSE IF mode = "remote"
           THEN /\ ivSpawned' = <<RemoteWriteProcess(call)>>
                /\ ivChild' = "running"
                /\ ivPc' = "write"
                /\ UNCHANGED <<ivTimer, ivResult>>
           ELSE /\ ivSpawned' = <<LocalProcess(call)>>
                /\ ivChild' = "running"
                /\ ivTimer' = LOCAL_TIMEOUT_MS
                /\ ivPc' = "run"
                /\ UNCHANGED ivResult
    /\ UNCHANGED <<ivKills, ivExit, ivCmdResult>>
    /\ UNCHANGED <<rlVars, rtVars, hbVars, chVars, dcVars, slVars, bdVars, whVars, rmVars, wsVars, vzVars>>

\* writeProc closes: on exit 0 the remote command is spawned and its
\* timeout armed, otherwise the call fails.
IvWriteClose ==
    /\ ivPc = "write"
    /\ \E code \in ExitCodes :
        IF code = 0
        THEN /\ ivSpawned' = Append(ivSpawned, RemoteExecProcess(ivCall))
             /\ ivTimer' = REMOTE_TIMEOUT_MS
             /\ ivPc' = "run"
             /\ UNCHANGED <<ivChild, ivCmdResult, ivResult>>
        ELSE /\ ivCmdResult' = IvReject("write_failed", "", code)
             /\ ivResult' = IvReject("write_failed", "", code)
             /\ ivChild' = "closed"
             /\ ivPc' = "done"
             /\ UNCHANGED <<ivSpawned, ivTimer>>
    /\ UNCHANGED <<ivCall, ivKills, ivExit>>
    /\ UNCHANGED <<rlVars, rtVars, hbVars, chVars, dcVars, slVars, bdVars, whVars, rmVars, wsVars, vzVars>>

\* writeProc emits 'error'.
IvWriteError ==
    /\ ivPc = "write"
    /\ ivCmdResult' = IvReject("spawn", "", 0)
    /\ ivResult' = IvReject("spawn", "", 0)
    /\ ivChild' = "closed"
    /\ ivPc' = "done"
    /\ UNCHANGED <<ivCall, ivSpawned, ivKills, ivTimer, ivExit>>
    /\ UNCHANGED <<rlVars, rtVars, hbVars, chVars, dcVars, slVars, bdVars, whVars, rmVars, wsVars, vzVars>>

\* Mutant: a later resolve or reject replaces the settled value.
IvSettleLast(promise, value) == value

\* resolve(value) / reject(value) on a promise: only the first call settles.
IvSettle(promise, value) == IF promise = IvPending THEN value ELSE promise

\* The agent process closes, possibly after its 'error' event or after the
\* timeout: the timer is cleared and resolve (exit 0) or reject is called.
IvClose ==
    /\ ivPc \in {"run", "done"}
    /\ ivChild \in {"running", "errored"}
    /\ \E code \in ExitCodes, stderr \in Stderrs,
          stdout \in Outputs(IF IsCodex(ivCall) THEN JsonLines ELSE PlainLines) :
        LET cmd == IF code = 0 THEN IvResolve(stdout) ELSE IvExitError(code, stderr) IN
        /\ ivExit' = [code |-> code, stdout |-> stdout, stderr |-> stderr,
                      late |-> ivCmdResult # IvPending]
        /\ ivCmdResult' = IvSettle(ivCmdResult, cmd)
        /\ ivResult' = IvSettle(ivResult, IvAfterCommand(ivCall, cmd))
    /\ ivChild' = "closed"
    /\ ivTimer' = 0
    /\ ivPc' = "done"
    /\ UNCHANGED <<ivCall, ivSpawned, ivKills>>
    /\ UNCHANGED <<rlVars, rtVars, hbVars, chVars, dcVars, slVars, bdVars, whVars, rmVars, wsVars, vzVars>>

\* The agent process emits 'error' (it could not be spawned, or could not
\* be killed): the timer is cleared and reject is called.  A 'close' may
\* still follow.
IvError ==
    /\ ivPc \in {"run", "done"}
    /\ ivChild = "running"
    /\ ivCmdResult' = IvSettle(ivCmdResult, IvReject("spawn", "", 0))
    /\ ivResult' = IvSettle(ivResult, IvReject("spawn", "", 0))
    /\ ivChild' = "errored"
    /\ ivTimer' = 0
    /\ ivPc' = "done"
    /\ UNCHANGED <<ivCall, ivSpawned, ivKills, ivExit>>
    /\ UNCHANGED <<rlVars, rtVars, hbVars, chVars, dcVars, slVars, bdVars, whVars, rmVars, wsVars, vzVars>>

\* The timer fires: child.kill() is called and reject is called with the
\* timeout error, without waiting for the process, which may close later,
\* or never.
IvTimeout ==
    /\ ivTimer > 0
    /\ ivKills' = ivKills + 1
    /\ ivCmdResult' = IvSettle(ivCmdResult, IvReject("timeout", "", ivTimer \div 1000))
    /\ ivResult' = IvSettle(ivResult, IvReject("timeout", "", ivTimer \div 1000))
    /\ ivTimer' = 0
    /\ ivPc' = "done"
    /\ UNCHANGED <<ivCall, ivSpawned, ivChild, ivExit>>
    /\ UNCHANGED <<rlVars, rtVars, hbVars, chVars, dcVars, slVars, bdVars, whVars, rmVars, wsVars, vzVars>>

\* The call is over and its processes gone: the next call may start.
IvReset ==
    /\ ivPc = "done"
    /\ ivChild # "running"
    /\ ivPc' = "idle"
    /\ ivCall' = NoCall
    /\ ivSpawned' = <<>>
    /\ ivChild' = "none"
    /\ ivKills' = 0
    /\ ivTimer' = 0
    /\ ivExit' = NoExit
    /\ ivCmdResult' = IvPending
    /\ ivResult' = IvPending
    /\ UNCHANGED <<rlVars, rtVars, hbVars, chVars, dcVars, slVars, bdVars, whVars, rmVars, wsVars, vzVars>>

IvNext ==
    \/ IvInvoke \/ IvWriteClose \/ IvWriteError \/ IvClose \/ IvError \/ IvTimeout
    \/ IvReset

(***************************************************************************)
(* Prompt builders of the validated commands (buildActivatePrompt,         *)
(* buildAskPrompt, buildResearchCommandPrompt) and the cases of the        *)
(* InteractionCreate handler that call them                                *)
(***************************************************************************)
\* Bound: the number of commands received, whose handlers may overlap.
MaxBdCalls == 2

\* STRATEGY_ID_RE = /^[a-zA-Z0-9_-]{1,50}$/
STRATEGY_ID_MAX == 50
\* validateTextInput(question, 2000, ...), validateTextInput(description, 500, ...)
QUESTION_MAX == 2000
DESCRIPTION_MAX == 500

\* Characters of a strategy id: "a" and "b" are letters, "7" a digit, "!" a
\* character outside the class.
IdClass == {"a", "b", "7", "_", "-"}
Rep(n, c) == [i \in 1..n |-> c]
KnownId == <<"a", "7">>
\* The strategy_id options tried: two well-formed ids, the empty one, one
\* with a character outside the class, and ids of 50 and 51 characters.
StrategyIds == {KnownId, <<"b", "_", "-">>, <<>>, <<"a", "!">>,
                Rep(STRATEGY_ID_MAX, "a"), Rep(STRATEGY_ID_MAX + 1, "a")}
\* A question or a description is read for its length only: a text is
\* modelled by its length.
Questions == {QUESTION_MAX, QUESTION_MAX + 1}
Descriptions == {DESCRIPTION_MAX, DESCRIPTION_MAX + 1}

\* strategist.strategies: the ids that may have a row, and what a row holds
\* (backtest_results is NULL or a document).
DbIds == {KnownId, Rep(STRATEGY_ID_MAX, "a")}
NoRow == [status |-> None, backtest_results |-> None]
Statuses == {"draft", "paper", "live", "retired"}
Rows == [status : Statuses, backtest_results : {None, "{}"}]

BdInit ==
    /\ bdPc = "boot"
    /\ strategies = [id \in DbIds |-> NoRow]
    /\ bdCalls = <<>>

\* The table is what it is when the client starts.
BdBoot ==
    /\ bdPc = "boot"
    /\ bdPc' = "run"
    /\ strategies' \in [DbIds -> Rows \cup {NoRow}]
    /\ strategies'[Rep(STRATEGY_ID_MAX, "a")] \in
          {NoRow, [status |-> "draft", backtest_results |-> "{}"]}
    /\ UNCHANGED bdCalls
    /\ UNCHANGED <<rlVars, rtVars, hbVars, chVars, dcVars, slVars, ivVars, whVars, rmVars, wsVars, vzVars>>

\* validateStrategyId(id): an error message, or null.
validateStrategyId(id) ==
    IF Len(id) >= 1 /\ Len(id) <= STRATEGY_ID_MAX /\ \A i \in DOMAIN id : id[i] \in IdClass
    THEN None
    ELSE "invalid_id"

\* A validateTextInput that lets one character too many through.
validateTextInputOffByOne(length, maxLen) ==
    IF length > maxLen + 1 THEN "too_long" ELSE None

\* validateTextInput(text, maxLen, fieldName): an error message, or null.
validateTextInput(length, maxLen) ==
    IF length > maxLen THEN "too_long" ELSE None

\* getStrategy(strategyId): the row, or null when there is none or the query
\* fails.
getStrategy(strategyId, queryOk) ==
    IF queryOk /\ strategyId \in DbIds /\ strategies[strategyId] # NoRow
    THEN strategies[strategyId]
    ELSE NoRow

\* A pre-activation validation that does not look at the status.
ActivateErrorNoStatus(strategy) ==
    IF strategy = NoRow THEN "not_found"
    ELSE IF strategy.backtest_results = None THEN "no_backtest"
    ELSE None

\* The pre-activation validation of buildActivatePrompt: the error it returns
\* with an empty prompt, or null.
ActivateError(strategy) ==
    IF strategy = NoRow THEN "not_found"
    ELSE IF strategy.status = "paper" \/ strategy.status = "live" THEN "already_active"
    ELSE IF strategy.backtest_results = None THEN "no_backtest"
    ELSE None

\* activateStrategy(strategyId): UPDATE ... SET status = 'paper' WHERE
\* strategy_id = $1.
activateStrategy(strategyId) ==
    [id \in DbIds |->
        IF id = strategyId /\ strategies[id] # NoRow
        THEN [strategies[id] EXCEPT !.status = "paper"]
        ELSE strategies[id]]

BdSet(i, pc, reply) == [bdCalls EXCEPT ![i].pc = pc, ![i].reply = reply]

\* The handler of an authorized /activate, /ask or /research up to its first
\* await: checkRateLimit, then the rate-limit reply or deferReply.
BdInteraction ==
    /\ bdPc = "run"
    /\ Len(bdCalls) < MaxBdCalls
    /\ \E cmd \in {"activate", "ask", "research"} :
       \E arg \in (IF cmd = "activate" THEN StrategyIds
                   ELSE IF cmd = "ask" THEN Questions ELSE Descriptions) :
        LET r == checkRateLimit(claudeSpawnTimestamps, dateNow) IN
        /\ claudeSpawnTimestamps' = r.ts
        /\ bdCalls' = Append(bdCalls,
              [cmd |-> cmd, arg |-> arg,
               pc |-> IF r.ok THEN "build" ELSE "done",
               reply |-> IF r.ok THEN None ELSE "rate_limited",
               logged |-> FALSE, updated |-> FALSE, queued |-> FALSE])
    /\ UNCHANGED <<dateNow, rlCalls, rlAdvances, rlAdmitted, rlLast>>
    /\ UNCHANGED <<bdPc, strategies>>
    /\ UNCHANGED <<rtVars, hbVars, chVars, dcVars, slVars, ivVars, whVars, rmVars, wsVars, vzVars>>

\* The builder up to its first await: the argument is validated; an invalid
\* strategy id is returned as an error and replied, an over-long text is
\* thrown, replied by the catch of the case, and cleanOldPending runs; a
\* valid argument is logged as a conversation.
BdValidate ==
    \E i \in DOMAIN bdCalls :
        LET c == bdCalls[i]
            err == IF c.cmd = "activate" THEN validateStrategyId(c.arg)
                   ELSE IF c.cmd = "ask" THEN validateTextInput(c.arg, QUESTION_MAX)
                   ELSE validateTextInput(c.arg, DESCRIPTION_MAX)
        IN
        /\ c.pc = "build"
        /\ IF err # None
           THEN /\ bdCalls' = BdSet(i, "done", err)
                /\ pendingResponses' =
                      IF c.cmd = "activate" THEN pendingResponses
                      ELSE cleanOldPending(pendingResponses, dateNow)
                /\ UNCHANGED conversationLog
           ELSE /\ bdCalls' = [bdCalls EXCEPT
                      ![i].pc = IF c.cmd = "activate" THEN "lookup" ELSE "prompt",
                      ![i].logged = TRUE]
                /\ conversationLog' = conversationLog + 1
                /\ UNCHANGED pendingResponses
    /\ UNCHANGED <<dcAdvances, dcRequests, dcInflight, dcIncoming, dcOutgoing,
                   processingOutgoingQueue, dcPass, dcReplies, dcOrigin, dcSent, dcForeign, dcChunks,
                   dcDropped>>
    /\ UNCHANGED <<slPc, allowedUserId, resetFlag, slAdvances, slCur, slReply>>
    /\ UNCHANGED <<bdPc, strategies>>
    /\ UNCHANGED <<rlVars, rtVars, hbVars, chVars, ivVars, whVars, rmVars, wsVars, vzVars>>

\* buildActivatePrompt from getStrategy to the call of activateStrategy: the
\* row is fetched and checked; an error is returned and replied.
BdLookup ==
    /\ \E i \in DOMAIN bdCalls, queryOk \in BOOLEAN :
        LET c == bdCalls[i]
            err == ActivateError(getStrategy(c.arg, queryOk))
        IN
        /\ c.pc = "lookup"
        /\ bdCalls' = IF err # None THEN BdSet(i, "done", err)
                      ELSE BdSet(i, "update", None)
    /\ UNCHANGED <<bdPc, strategies>>
    /\ UNCHANGED <<rlVars, rtVars, hbVars, chVars, dcVars, slVars, ivVars, whVars, rmVars, wsVars, vzVars>>

\* The UPDATE of activateStrategy runs; a failing query throws into the catch
\* of the handler, which replies that an error occurred.
BdUpdate ==
    /\ \E i \in DOMAIN bdCalls, queryOk \in BOOLEAN :
        LET c == bdCalls[i] IN
        /\ c.pc = "update"
        /\ IF queryOk
           THEN /\ strategies' = activateStrategy(c.arg)
                /\ bdCalls' = [bdCalls EXCEPT ![i].pc = "prompt", ![i].updated = TRUE]
           ELSE /\ bdCalls' = BdSet(i, "done", "error")
                /\ UNCHANGED strategies
    /\ UNCHANGED bdPc
    /\ UNCHANGED <<rlVars, rtVars, hbVars, chVars, dcVars, slVars, ivVars, whVars, rmVars, wsVars, vzVars>>

\* buildPrompt / buildResearchPrompt settles and the case goes on: the work
\* item is written and the pending response registered, or the error is
\* replied (/ask and /research then run cleanOldPending).
BdPrompt ==
    /\ \E i \in DOMAIN bdCalls, built \in BOOLEAN :
        LET c == bdCalls[i] IN
        /\ c.pc = "prompt"
        /\ IF built
           THEN /\ DcEnqueue(SlRequester("interaction"))
                /\ bdCalls' = [bdCalls EXCEPT ![i].pc = "done", ![i].queued = TRUE]
           ELSE /\ bdCalls' = BdSet(i, "done", "error")
                /\ pendingResponses' =
                      IF c.cmd = "activate" THEN pendingResponses
                      ELSE cleanOldPending(pendingResponses, dateNow)
                /\ UNCHANGED <<dcIncoming, dcOrigin>>
    /\ UNCHANGED <<dcAdvances, dcRequests, dcInflight, dcOutgoing,
                   processingOutgoingQueue, dcPass, dcReplies, dcSent, dcForeign, dcChunks, dcDropped>>
    /\ UNCHANGED <<bdPc, strategies>>
    /\ UNCHANGED <<rlVars, rtVars, hbVars, chVars, slVars, ivVars, whVars, rmVars, wsVars, vzVars>>

BdNext == BdBoot \/ BdInteraction \/ BdValidate \/ BdLookup \/ BdUpdate \/ BdPrompt

(***************************************************************************)
(* Notification webhook: what post_webhook of the heartbeat script and     *)
(* sendDiscord / sendDiscordChunked put in the content of a POST           *)
(***************************************************************************)
\* const MAX_MESSAGE_LENGTH = 1900
MAX_MESSAGE_LENGTH == 1900
\* message.substring(0, 2000)
SEND_DISCORD_MAX == 2000
\* ${RESPONSE:0:1800}
RESPONSE_MAX == 1800

\* The texts to forward: head, n times "x", sep, m times "x".
WhLengths == {0, 1, RESPONSE_MAX, RESPONSE_MAX + 1, MAX_MESSAGE_LENGTH - 1,
              MAX_MESSAGE_LENGTH, MAX_MESSAGE_LENGTH + 1, SEND_DISCORD_MAX,
              SEND_DISCORD_MAX + 1}
WhInputs ==
    [head : {<<>>, <<" ">>, <<Newline, Newline>>}, n : WhLengths, sep : {<<>>}, m : {0}]
    \cup [head : {<<>>}, n : {1000, MAX_MESSAGE_LENGTH}, sep : {<<" ">>, <<Newline>>},
          m : {1, MAX_MESSAGE_LENGTH}]
Text(d) == d.head \o [i \in 1..d.n |-> "x"] \o d.sep \o [i \in 1..d.m |-> "x"]

Whitespace == {" ", Newline}
SetMax(S) == CHOOSE x \in S : \A y \in S : y <= x
SetMin(S) == CHOOSE x \in S : \A y \in S : x <= y

\* s.substring(a, b), indices from 0, b exclusive.
Substring(s, a, b) == SubSeq(s, a + 1, IF b > Len(s) THEN Len(s) ELSE b)

\* s.lastIndexOf(pat, fromIndex): the greatest index <= fromIndex at which
\* pat occurs, or -1.
lastIndexOf(s, pat, fromIndex) ==
    LET top == IF fromIndex < Len(s) - Len(pat) THEN fromIndex ELSE Len(s) - Len(pat)
        found == {i \in 0..top : SubSeq(s, i + 1, i + Len(pat)) = pat}
    IN IF found = {} THEN -1 ELSE SetMax(found)

\* s.trim()
TrimText(s) ==
    LET solid == {i \in DOMAIN s : s[i] \notin Whitespace} IN
    IF solid = {} THEN <<>> ELSE SubSeq(s, SetMin(solid), SetMax(solid))

\* post_webhook "$content": echo "$content" | python3 json.dumps(stdin.read())
\* gives the content followed by the line break echo adds.
PostWebhookContent(content) == content \o <<Newline>>

\* "**@${AGENT_ID} heartbeat:**\n" with the backslash and the n as they are.
HeartbeatHeader(agent) ==
    <<"*", "*", "@">> \o agent \o
    <<" ", "h", "e", "a", "r", "t", "b", "e", "a", "t", ":", "*", "*", Backslash, "n">>

\* sendDiscord(message): the content of its POST.
sendDiscord(message) == Substring(message, 0, SEND_DISCORD_MAX)

\* The index sendDiscordChunked splits remaining at.
SplitIndex(remaining) ==
    LET a == lastIndexOf(remaining, <<Newline, Newline>>, MAX_MESSAGE_LENGTH)
        b == lastIndexOf(remaining, <<Newline>>, MAX_MESSAGE_LENGTH)
        c == lastIndexOf(remaining, <<" ">>, MAX_MESSAGE_LENGTH)
    IN IF a # -1 THEN a ELSE IF b # -1 THEN b ELSE IF c # -1 THEN c
       ELSE MAX_MESSAGE_LENGTH

\* The while loop of sendDiscordChunked: the chunks of remaining.
RECURSIVE Chunks(_)
Chunks(remaining) ==
    IF Len(remaining) = 0 THEN <<>>
    ELSE IF Len(remaining) <= MAX_MESSAGE_LENGTH THEN <<remaining>>
    ELSE LET splitIndex == SplitIndex(remaining) IN
         <<Substring(remaining, 0, splitIndex)>> \o
         Chunks(TrimText(Substring(remaining, splitIndex, Len(remaining))))

\* sendDiscordChunked(message): the contents of its POSTs, in order.
sendDiscordChunked(message) ==
    IF Len(message) <= MAX_MESSAGE_LENGTH THEN <<sendDiscord(message)>>
    ELSE LET chunks == Chunks(message) IN
         [k \in DOMAIN chunks |-> sendDiscord(chunks[k])]

Lengths(contents) == [k \in DOMAIN contents |-> Len(contents[k])]

WhInit ==
    /\ whInput = [path |-> None]
    /\ whPosts = <<>>

\* Script mode: a non-empty output of heartbeat.sh is posted.
WhScriptForward ==
    /\ whInput.path = None
    /\ \E d \in WhInputs :
        /\ Text(d) # <<>>
        /\ whInput' = [path |-> "script", text |-> d]
        /\ whPosts' = Lengths(<<PostWebhookContent(Text(d))>>)
    /\ UNCHANGED <<rlVars, rtVars, hbVars, chVars, dcVars, slVars, ivVars, bdVars, rmVars, wsVars, vzVars>>

\* Claude mode: a non-empty response is posted under the header, cut to
\* 1800 characters.
WhClaudeForward ==
    /\ whInput.path = None
    /\ \E d \in WhInputs :
        /\ Text(d) # <<>>
        /\ whInput' = [path |-> "claude", text |-> d]
        /\ whPosts' = Lengths(<<PostWebhookContent(
                HeartbeatHeader(<<"a", "1">>) \o Substring(Text(d), 0, RESPONSE_MAX))>>)
    /\ UNCHANGED <<rlVars, rtVars, hbVars, chVars, dcVars, slVars, ivVars, bdVars, rmVars, wsVars, vzVars>>

\* sendDiscord(message), the webhook URL being set.
WhSendDiscord ==
    /\ whInput.path = None
    /\ \E d \in WhInputs :
        /\ whInput' = [path |-> "sendDiscord", text |-> d]
        /\ whPosts' = Lengths(<<sendDiscord(Text(d))>>)
    /\ UNCHANGED <<rlVars, rtVars, hbVars, chVars, dcVars, slVars, ivVars, bdVars, rmVars, wsVars, vzVars>>

\* sendDiscordChunked(message), the webhook URL being set.
WhSendDiscordChunked ==
    /\ whInput.path = None
    /\ \E d \in WhInputs :
        /\ whInput' = [path |-> "sendDiscordChunked", text |-> d]
        /\ whPosts' = Lengths(sendDiscordChunked(Text(d)))
    /\ UNCHANGED <<rlVars, rtVars, hbVars, chVars, dcVars, slVars, ivVars, bdVars, rmVars, wsVars, vzVars>>

WhNext == WhScriptForward \/ WhClaudeForward \/ WhSendDiscord \/ WhSendDiscordChunked

(***************************************************************************)
(* Overlapping remote invocations: runCommandRemote called again while     *)
(* earlier calls are still awaiting their ssh processes                    *)
(***************************************************************************)
\* Bound: the remote invocations that may overlap.
MaxRmCalls == 2
\* Bound: the milliseconds the clock advances.
MaxRmAdvances == 1

RmIds == 1..MaxRmCalls
RmHosts == {"ct110", "ct111"}
RmPrompts == {"m1", "m2"}
NoTmpFile == -1
RmIdle ==
    [pc |-> "idle", host |-> None, tmpFile |-> NoTmpFile, prompt |-> None,
     PROMPT |-> None, ran |-> None]

\* `/tmp/tinyclaw-prompt-${Date.now()}.txt`: the name is the millisecond.
TmpFileName(now) == now

RmInit ==
    /\ rmNow = 0
    /\ rmCalls = [i \in RmIds |-> RmIdle]
    /\ remoteTmp = [h \in RmHosts |-> [f \in 0..MaxRmAdvances |-> None]]

\* A millisecond passes.
RmAdvance ==
    /\ rmNow < MaxRmAdvances
    /\ rmNow' = rmNow + 1
    /\ UNCHANGED <<rmCalls, remoteTmp>>
    /\ UNCHANGED <<rlVars, rtVars, hbVars, chVars, dcVars, slVars, ivVars, bdVars, whVars, wsVars, vzVars>>

\* runCommandRemote is entered: tmpFile is named and the writing ssh
\* spawned, the prompt on its stdin.
RmStart(i) ==
    /\ rmCalls[i].pc = "idle"
    /\ \E host \in RmHosts, prompt \in RmPrompts :
        rmCalls' = [rmCalls EXCEPT ![i] =
                       [pc |-> "write", host |-> host, tmpFile |-> TmpFileName(rmNow),
                        prompt |-> prompt, PROMPT |-> None, ran |-> None]]
    /\ UNCHANGED <<rmNow, remoteTmp>>
    /\ UNCHANGED <<rlVars, rtVars, hbVars, chVars, dcVars, slVars, ivVars, bdVars, whVars, wsVars, vzVars>>

\* Step 1, on the remote host: cat > tmpFile stores the prompt, replacing
\* what the file held; on exit 0 the remote command is spawned, otherwise
\* the call is rejected.
RmWrite(i) ==
    LET c == rmCalls[i] IN
    /\ c.pc = "write"
    /\ \E code \in ExitCodes :
        IF code = 0
        THEN /\ remoteTmp' = [remoteTmp EXCEPT ![c.host][c.tmpFile] = c.prompt]
             /\ rmCalls' = [rmCalls EXCEPT ![i].pc = "cat"]
        ELSE /\ rmCalls' = [rmCalls EXCEPT ![i].pc = "rejected"]
             /\ UNCHANGED remoteTmp
    /\ UNCHANGED rmNow
    /\ UNCHANGED <<rlVars, rtVars, hbVars, chVars, dcVars, slVars, ivVars, bdVars, whVars, wsVars, vzVars>>

\* Step 3, on the remote host: PROMPT=$(cat tmpFile) &&; a missing file
\* ends the command with a non-zero exit.
RmCat(i) ==
    LET c == rmCalls[i] IN
    /\ c.pc = "cat"
    /\ rmCalls' = [rmCalls EXCEPT ![i] =
                      IF remoteTmp[c.host][c.tmpFile] = None
                      THEN [c EXCEPT !.pc = "rejected"]
                      ELSE [c EXCEPT !.pc = "rm",
                                     !.PROMPT = remoteTmp[c.host][c.tmpFile]]]
    /\ UNCHANGED <<rmNow, remoteTmp>>
    /\ UNCHANGED <<rlVars, rtVars, hbVars, chVars, dcVars, slVars, ivVars, bdVars, whVars, wsVars, vzVars>>

\* rm -f tmpFile && claude args -p "$PROMPT"
RmRemoveAndRun(i) ==
    LET c == rmCalls[i] IN
    /\ c.pc = "rm"
    /\ remoteTmp' = [remoteTmp EXCEPT ![c.host][c.tmpFile] = None]
    /\ rmCalls' = [rmCalls EXCEPT ![i].pc = "ran", ![i].ran = c.PROMPT]
    /\ UNCHANGED rmNow
    /\ UNCHANGED <<rlVars, rtVars, hbVars, chVars, dcVars, slVars, ivVars, bdVars, whVars, wsVars, vzVars>>

RmNext ==
    \/ RmAdvance
    \/ \E i \in RmIds : RmStart(i)
    \/ \E i \in RmIds : RmWrite(i)
    \/ \E i \in RmIds : RmCat(i)
    \/ \E i \in RmIds : RmRemoveAndRun(i)

(***************************************************************************)
(* State files: readState and writeState of trading-db/state.ts, with      *)
(* calls for one filename that overlap                                     *)
(***************************************************************************)
\* Bound: the writeState calls for the filename.
MaxWsWriters == 2

WsWriters == 1..MaxWsWriters
\* The file that is there before the calls, if any, and its content.
WsOldInode == MaxWsWriters + 1
WsOldContent == "v0"
NoInode == 0
\* JSON.stringify(data, null, 2) of the data of call w.
WsData(w) == IF w = 1 THEN "d1" ELSE "d2"
WsNoRead == [result |-> "none", existed |-> FALSE]

WsInit ==
    /\ wsPc = [w \in WsWriters |-> "boot"]
    /\ wsFd = [w \in WsWriters |-> NoInode]
    /\ wsPaths = [filePath |-> NoInode, tmpPath |-> NoInode]
    /\ wsInodes = [i \in 1..WsOldInode |-> ""]
    /\ wsRead = WsNoRead

\* The state directory as the process finds it: with or without the file.
WsBoot ==
    /\ \A w \in WsWriters : wsPc[w] = "boot"
    /\ wsPc' = [w \in WsWriters |-> "idle"]
    /\ \E exists \in BOOLEAN :
        IF exists
        THEN /\ wsPaths' = [wsPaths EXCEPT !.filePath = WsOldInode]
             /\ wsInodes' = [wsInodes EXCEPT ![WsOldInode] = WsOldContent]
        ELSE UNCHANGED <<wsPaths, wsInodes>>
    /\ UNCHANGED <<wsFd, wsRead>>
    /\ UNCHANGED <<rlVars, rtVars, hbVars, chVars, dcVars, slVars, ivVars, bdVars, whVars,
                   rmVars, vzVars>>

\* writeFile(tmpPath, ...) opens tmpPath for writing: the file it names is
\* emptied, or a new file is made.
OpenTmp(w) ==
    LET i == IF wsPaths.tmpPath # NoInode THEN wsPaths.tmpPath ELSE w IN
    /\ wsFd' = [wsFd EXCEPT ![w] = i]
    /\ wsPaths' = [wsPaths EXCEPT !.tmpPath = i]
    /\ wsInodes' = [wsInodes EXCEPT ![i] = ""]

\* writeState up to the opening of the temporary file.
WsOpen(w) ==
    /\ wsPc[w] = "idle"
    /\ OpenTmp(w)
    /\ wsPc' = [wsPc EXCEPT ![w] = "write"]
    /\ UNCHANGED wsRead
    /\ UNCHANGED <<rlVars, rtVars, hbVars, chVars, dcVars, slVars, ivVars, bdVars, whVars,
                   rmVars, vzVars>>

\* writeFile writes the document to the file it has open and closes it.
WsWrite(w) ==
    /\ wsPc[w] = "write"
    /\ wsInodes' = [wsInodes EXCEPT ![wsFd[w]] = WsData(w)]
    /\ wsPc' = [wsPc EXCEPT ![w] = "rename"]
    /\ UNCHANGED <<wsFd, wsPaths, wsRead>>
    /\ UNCHANGED <<rlVars, rtVars, hbVars, chVars, dcVars, slVars, ivVars, bdVars, whVars,
                   rmVars, vzVars>>

\* rename(tmpPath, filePath): the file tmpPath names becomes the file
\* filePath names; without a file at tmpPath the call is rejected (ENOENT).
WsRename(w) ==
    /\ wsPc[w] = "rename"
    /\ IF wsPaths.tmpPath # NoInode
       THEN /\ wsPaths' = [filePath |-> wsPaths.tmpPath, tmpPath |-> NoInode]
            /\ wsPc' = [wsPc EXCEPT ![w] = "done"]
       ELSE /\ wsPc' = [wsPc EXCEPT ![w] = "rejected"]
            /\ UNCHANGED wsPaths
    /\ UNCHANGED <<wsFd, wsInodes, wsRead>>
    /\ UNCHANGED <<rlVars, rtVars, hbVars, chVars, dcVars, slVars, ivVars, bdVars, whVars,
                   rmVars, vzVars>>

\* readState: readFile and JSON.parse; a missing file and a text that does
\* not parse both give null.
readState ==
    IF wsPaths.filePath = NoInode THEN "null"
    ELSE IF wsInodes[wsPaths.filePath] = "" THEN "null"
    ELSE wsInodes[wsPaths.filePath]

WsReadState ==
    /\ \A w \in WsWriters : wsPc[w] # "boot"
    /\ wsRead' = [result |-> readState, existed |-> wsPaths.filePath # NoInode]
    /\ UNCHANGED <<wsPc, wsFd, wsPaths, wsInodes>>
    /\ UNCHANGED <<rlVars, rtVars, hbVars, chVars, dcVars, slVars, ivVars, bdVars, whVars,
                   rmVars, vzVars>>

WsNext ==
    \/ WsBoot
    \/ \E w \in WsWriters : WsOpen(w)
    \/ \E w \in WsWriters : WsWrite(w)
    \/ \E w \in WsWriters : WsRename(w)
    \/ WsReadState

(***************************************************************************)
(* Visualizer: the effect of App that scans and watches the events         *)
(* directory                                                               *)
(***************************************************************************)
\* Bound: watcher notifications per name.
MaxVzNotes == 2

\* Names in the events directory: event files and a file that is none.
VzNames ==
    { [base |-> "e1", ext |-> ".json"],
      [base |-> "e2", ext |-> ".json"],
      [base |-> "notes", ext |-> ".txt"] }

\* A file is absent, half written ("partial"), or holds an event whose
\* timestamp is before the cutoff of the scan ("old") or not ("recent").
VzFileStates == {"absent", "partial", "old", "recent"}

\* f.endsWith('.json')
VzIsEventFile(f) == f.ext = ".json"

\* readFileSync and JSON.parse give an event.
VzParses(f) == vzFiles[f] \in {"old", "recent"}

VzInit ==
    /\ vzPc = "boot"
    /\ vzFiles = [f \in VzNames |-> "absent"]
    /\ processed = {}
    /\ vzTimers = {}
    /\ vzNotes = [f \in VzNames |-> 0]
    /\ vzHandled = [f \in VzNames |-> 0]

\* The events directory as the process finds it.
VzBoot ==
    /\ vzPc = "boot"
    /\ vzPc' = "mount"
    /\ \E dir \in [VzNames -> VzFileStates] : vzFiles' = dir
    /\ UNCHANGED <<processed, vzTimers, vzNotes, vzHandled>>
    /\ UNCHANGED <<rlVars, rtVars, hbVars, chVars, dcVars, slVars, ivVars, bdVars, whVars,
                   rmVars, wsVars>>

\* The emitter writes an event file: created, then complete.
VzEmit(f) ==
    /\ vzPc # "boot"
    /\ VzIsEventFile(f)
    /\ \/ vzFiles[f] = "absent" /\ vzFiles' = [vzFiles EXCEPT ![f] = "partial"]
       \/ vzFiles[f] = "partial" /\ vzFiles' = [vzFiles EXCEPT ![f] = "recent"]
    /\ UNCHANGED <<vzPc, processed, vzTimers, vzNotes, vzHandled>>
    /\ UNCHANGED <<rlVars, rtVars, hbVars, chVars, dcVars, slVars, ivVars, bdVars, whVars,
                   rmVars, wsVars>>

\* The effect runs: the existing event files are read; an event not older
\* than the cutoff is handled; a file that was read is recorded; then the
\* watcher is installed.
VzScan ==
    /\ vzPc = "mount"
    /\ LET existing == {f \in VzNames : vzFiles[f] # "absent" /\ VzIsEventFile(f)} IN
       /\ vzHandled' = [f \in VzNames |->
                          IF f \in existing /\ vzFiles[f] = "recent"
                          THEN vzHandled[f] + 1 ELSE vzHandled[f]]
       /\ processed' = processed \cup {f \in existing : VzParses(f)}
    /\ vzPc' = "watching"
    /\ UNCHANGED <<vzFiles, vzTimers, vzNotes>>
    /\ UNCHANGED <<rlVars, rtVars, hbVars, chVars, dcVars, slVars, ivVars, bdVars, whVars,
                   rmVars, wsVars>>

\* Mutant: the watcher does not look the name up.
VzProcessedHasNever(f) == FALSE

\* processed.has(filename)
VzProcessedHas(f) == f \in processed

\* The watcher callback for a notification that names f.
VzNotify(f) ==
    /\ vzPc = "watching"
    /\ vzNotes[f] < MaxVzNotes
    /\ vzNotes' = [vzNotes EXCEPT ![f] = @ + 1]
    /\ IF ~VzIsEventFile(f) \/ VzProcessedHas(f)
       THEN UNCHANGED <<processed, vzTimers>>
       ELSE /\ processed' = processed \cup {f}
            /\ vzTimers' = vzTimers \cup {f}
    /\ UNCHANGED <<vzPc, vzFiles, vzHandled>>
    /\ UNCHANGED <<rlVars, rtVars, hbVars, chVars, dcVars, slVars, ivVars, bdVars, whVars,
                   rmVars, wsVars>>

\* The 50 ms timer of the watcher fires: the file is read and its event
\* handled, then the file is removed.
VzTimer(f) ==
    /\ f \in vzTimers
    /\ vzTimers' = vzTimers \ {f}
    /\ vzHandled' = [vzHandled EXCEPT ![f] = IF VzParses(f) THEN @ + 1 ELSE @]
    /\ vzFiles' = [vzFiles EXCEPT ![f] = "absent"]
    /\ UNCHANGED <<vzPc, processed, vzNotes>>
    /\ UNCHANGED <<rlVars, rtVars, hbVars, chVars, dcVars, slVars, ivVars, bdVars, whVars,
                   rmVars, wsVars>>

VzNext ==
    \/ VzBoot
    \/ \E f \in VzNames : VzEmit(f)
    \/ VzScan
    \/ \E f \in VzNames : VzNotify(f)
    \/ \E f \in VzNames : VzTimer(f)

(***************************************************************************)
(* Specifications                                                          *)
(***************************************************************************)
Init ==
    RlInit /\ RtInit /\ HbInit /\ ChInit /\ DcInit /\ SlInit /\ IvInit /\ BdInit
    /\ WhInit /\ RmInit /\ WsInit /\ VzInit

SpecRateLimit == Init /\ [][RlNext]_vars
SpecRetry == Init /\ [][RtNext]_vars

SpecHeartbeat == Init /\ [][HbNext]_vars

SpecChain == Init /\ [][ChNext]_vars

SpecDiscord == Init /\ [][DcNext]_vars
SpecDelivery == Init /\ [][DcDeliveryNext]_vars
SpecOutgoingStore == Init /\ [][DcStoreNext]_vars

SpecSlash == Init /\ [][SlNext]_vars

SpecInvoke == Init /\ [][IvNext]_vars

SpecBuild == Init /\ [][BdNext]_vars

SpecWebhook == Init /\ [][WhNext]_vars
SpecRemote == Init /\ [][RmNext]_vars
SpecState == Init /\ [][WsNext]_vars
SpecVisualizer == Init /\ [][VzNext]_vars

\* The limiter next to the heartbeat script and next to the Discord client.
\* The script and the client are two processes that share no variable (each
\* writes its own files of the queue): they are explored one at a time,
\* from the state in which one of them runs (after HbBoot with a claude-mode
\* and a script-mode agent, or after SlConfigure for user u1) and the other
\* has not started.
LfHeartbeatRuns ==
    /\ hbPc = "sleep"
    /\ hbClock = HbStartEpoch
    /\ hbTicks = 0
    /\ hbSettings = [a \in HbAgentSet |->
                        [interval |-> 30,
                         mode |-> IF a = HbAgents[1] THEN "claude" ELSE "script"]]
    /\ hbWebhook = FALSE
    /\ NOW = 0
    /\ hbTodo = <<>>
    /\ AGENT_ID = None
    /\ MESSAGE_ID = <<>>
    /\ hbRecord = [a \in HbAgentSet |-> NoFile]
    /\ PROMPT = <<>>
    /\ hbIncoming = {}
    /\ hbOutgoing = {}
    /\ hbPosts = {}
    /\ hbDecision = [agent |-> None]
    /\ hbFiredAt = [a \in HbAgentSet |-> NeverFired]
    /\ hbPartialSeen = {}

LfClientRuns ==
    /\ slPc = "run"
    /\ allowedUserId = "u1"
    /\ resetFlag = FALSE
    /\ conversationLog = 0
    /\ slAdvances = 0
    /\ slCur = NoRequest
    /\ slReply = None

LfInit ==
    /\ RlInit /\ RtInit /\ ChInit /\ DcInit /\ IvInit /\ BdInit /\ WhInit /\ RmInit
    /\ WsInit /\ VzInit
    /\ \/ LfHeartbeatRuns /\ SlInit
       \/ LfClientRuns /\ HbInit

LfNext ==
    \/ RlCheck
    \/ SlReceive \/ SlInteraction \/ SlMessage
    \/ HbSleep \/ HbLoopEnd \/ HbCheck \/ HbFireScript \/ HbReadPrompt
    \/ HbEnqueueOpen \/ HbEnqueueWrite \/ HbCollect \/ HbRecordOpen \/ HbRecordWrite

SpecLimiterFrame == LfInit /\ [][LfNext]_vars

\* The steps of the heartbeat script itself.
HbScript ==
    \/ HbSleep \/ HbLoopEnd \/ HbCheck \/ HbFireScript \/ HbReadPrompt
    \/ HbEnqueueOpen \/ HbEnqueueWrite \/ HbCollect \/ HbRecordOpen \/ HbRecordWrite

\* The shell goes on with the script as long as it has a next command; when
\* the queue processor answers is left open.
SpecHeartbeatLive == SpecHeartbeat /\ WF_vars(HbScript)

\* Timers fire; nothing makes a process exit.
SpecInvokeLive == SpecInvoke /\ WF_vars(IvTimeout)

Next ==
    \/ RlNext \/ RtNext \/ HbNext \/ ChNext \/ DcNext \/ SlNext \/ IvNext \/ BdNext
    \/ WhNext \/ RmNext \/ DcDeliveryNext \/ DcStoreNext \/ WsNext
    \/ VzNext
Spec == Init /\ [][Next]_vars

(***************************************************************************)
(* Claims                                                                  *)
(***************************************************************************)

\* C1: among calls of checkRateLimit made with a non-decreasing clock, at
\* most 5 of those whose times lie less than 60,000 ms apart return true:
\* the fifth admission after any admission is at least a window later, and
\* a call made with five admissions less than a window old is rejected.
C1_AtMostFivePerWindow ==
    /\ \A i, j \in DOMAIN rlAdmitted :
        j >= i + RATE_LIMIT_MAX =>
            rlAdmitted[j] - rlAdmitted[i] >= RATE_LIMIT_WINDOW_MS
    /\ (/\ rlCalls > 0
        /\ Len(rlLast.before) >= RATE_LIMIT_MAX
        /\ rlLast.time - rlLast.before[Len(rlLast.before) - RATE_LIMIT_MAX + 1]
             < RATE_LIMIT_WINDOW_MS)
       => ~rlLast.ok

\* A sixth call 59,999 ms or less after the first of five admissions was
\* rejected, the clock having moved in between.
C1_Witness ==
    /\ Len(rlAdmitted) = RATE_LIMIT_MAX
    /\ rlCalls > RATE_LIMIT_MAX
    /\ ~rlLast.ok
    /\ rlLast.time > rlAdmitted[1]
    /\ rlLast.time - rlAdmitted[1] < RATE_LIMIT_WINDOW_MS

RtAllTransient(calls) ==
    \A i \in DOMAIN calls : ~calls[i].ok /\ isTransientError(calls[i].err)

\* C2: when fn fails transiently k times (k < maxRetries) and then succeeds,
\* withRetry does not give up before the success, returns the success value
\* after exactly k+1 calls and exactly k waits, the i-th wait (from 0) being
\* baseDelayMs * 2^i.
C2_RetryThenSuccess ==
    /\ (RtAllTransient(rtCalls) /\ Len(rtCalls) < maxRetries)
         => rtResult.kind = None
    /\ (rtPc = "done" /\ rtCalls # <<>> /\ Last(rtCalls).ok) =>
        LET k == Len(rtCalls) - 1 IN
        /\ rtResult = [kind |-> "return", value |-> Last(rtCalls).value]
        /\ RtAllTransient(SubSeq(rtCalls, 1, k))
        /\ Len(rtWaits) = k
        /\ \A i \in 0 .. k - 1 : rtWaits[i + 1] = baseDelayMs * Pow2(i)

\* fn failed transiently twice and then succeeded.
C2_Witness ==
    /\ rtPc = "done"
    /\ rtResult.kind = "return"
    /\ Len(rtCalls) = 3
    /\ maxRetries = 3
    /\ rtWaits = <<5000, 10000>>

\* C3: withRetry throws the very error fn threw: at once, with no wait after
\* it, when the error is not transient, and after the attempt numbered
\* maxRetries when every attempt failed transiently; fn is called at most
\* maxRetries+1 times and never after a success or a non-transient failure.
C3_ErrorPropagation ==
    /\ Len(rtCalls) <= maxRetries + 1
    /\ \A i \in 1 .. Len(rtCalls) - 1 :
        ~rtCalls[i].ok /\ isTransientError(rtCalls[i].err)
    /\ Len(rtWaits) <= Len(rtCalls)
    /\ (rtCalls # <<>> /\ ~Last(rtCalls).ok /\ ~isTransientError(Last(rtCalls).err)) =>
        /\ rtPc = "done"
        /\ rtResult = [kind |-> "throw", err |-> Last(rtCalls).err]
        /\ Len(rtWaits) = Len(rtCalls) - 1
    /\ (RtAllTransient(rtCalls) /\ Len(rtCalls) = maxRetries + 1 /\ rtCalls # <<>>) =>
        /\ rtPc = "done"
        /\ rtResult = [kind |-> "throw", err |-> Last(rtCalls).err]
        /\ Len(rtWaits) = maxRetries
    /\ rtResult.kind = "throw" =>
        /\ rtCalls # <<>>
        /\ rtResult.err = Last(rtCalls).err
        /\ (isTransientError(rtResult.err) => Len(rtCalls) = maxRetries + 1)

\* Every one of the three attempts failed transiently and the last error
\* was thrown.
C3_Witness ==
    /\ rtResult.kind = "throw"
    /\ isTransientError(rtResult.err)
    /\ maxRetries = 2
    /\ Len(rtCalls) = 3

\* C4: on a tick taken at NOW, an agent that has a heartbeat_interval fires
\* iff NOW minus its record (0 when there is no record file) is at least its
\* interval; an agent without a record fires on the first tick.
C4_FiresIffDue ==
    /\ hbDecision.agent # None =>
        /\ hbSettings[hbDecision.agent].interval # NoInterval
        /\ hbDecision.interval = hbSettings[hbDecision.agent].interval
        /\ ~hbDecision.hadRecord => hbDecision.last = 0 /\ hbDecision.fired
        /\ hbDecision.fired <=>
             hbDecision.now - hbDecision.last >= hbDecision.interval
    /\ hbPc = "fire" => hbDecision.agent = AGENT_ID /\ hbDecision.fired

\* An agent whose record is one second short of its interval was not fired.
C4_Witness ==
    /\ hbDecision.agent # None
    /\ hbDecision.hadRecord
    /\ hbDecision.now - hbDecision.last = hbDecision.interval - 1
    /\ ~hbDecision.fired

HbInFire(a) ==
    /\ AGENT_ID = a
    /\ hbPc \in {"fire", "enqueue", "enqueue_write", "wait", "record", "record_write"}

\* C5: after an agent fires, whatever the outcome of the fire, its record is
\* set to the current time (so it is not older than the tick that fired it)
\* and the scheduler loop goes on.
C5_RecordAfterEveryFire ==
    /\ hbPc # "exited"
    /\ \A a \in HbAgentSet :
        (hbFiredAt[a] # NeverFired /\ ~HbInFire(a)) => hbRecord[a] >= hbFiredAt[a]

\* C10: the work item files and the record files are written by temporary
\* file and rename, so no concurrent reader ever finds one partially written.
C10_NoPartialFileObserved ==
    hbPartialSeen = {}

ChCount(t, type) == Cardinality({k \in DOMAIN chEvents[t] : chEvents[t][k].type = type})

C8_ResponseNeverDiscarded ==
    \A d \in dcDropped :
        ~(d.messageId \in DOMAIN dcOrigin /\ d.why = "no_pending")

\* C9: checkOutgoingQueue sends a response, and awaits the send of one, only
\* to the request that was registered under the messageId of the response
\* file; never to the requester of a different work item.
C9_DeliveredToOwnRequester ==
    /\ \A s \in dcSent :
        /\ s.messageId \in DOMAIN dcOrigin
        /\ s.to = dcOrigin[s.messageId]
    /\ dcPass.cur # NoPending =>
        /\ dcPass.cur.messageId \in DOMAIN dcOrigin
        /\ dcPass.cur.req = dcOrigin[dcPass.cur.messageId]

\* A response has been sent while an earlier request is still pending.
C9_Witness ==
    \E s \in dcSent : \E id \in DOMAIN pendingResponses :
        /\ id[2] < s.messageId[2]
        /\ pendingResponses[id].req # s.to

\* C12: once five admissions are recorded, a call at a time t that is at
\* least 60,000 ms after the oldest recorded admission returns true and
\* records t; a call that returns false leaves the recorded timestamps as
\* they were, so a rejected call never postpones the resumption.
C12_AdmissionResumes ==
    rlCalls > 0 =>
        /\ (/\ Len(rlLast.before) = RATE_LIMIT_MAX
            /\ rlLast.time >= rlLast.before[1] + RATE_LIMIT_WINDOW_MS)
           => /\ rlLast.ok
              /\ Len(claudeSpawnTimestamps) > 0
              /\ Last(claudeSpawnTimestamps) = rlLast.time
        /\ ~rlLast.ok => claudeSpawnTimestamps = rlLast.before

\* The limiter was full, a call was rejected, and a later call exactly one
\* window after the oldest admission was admitted.
C12_Witness ==
    /\ rlCalls = RATE_LIMIT_MAX + 2
    /\ Len(rlAdmitted) = RATE_LIMIT_MAX + 1
    /\ Len(rlLast.before) = RATE_LIMIT_MAX
    /\ rlLast.time = rlLast.before[1] + RATE_LIMIT_WINDOW_MS
    /\ rlLast.ok

\* C11: when checkRateLimit returns false for /regime, /performance,
\* /strategies, /activate, /research or /ask, the handler answers with the
\* rate-limit message, writes no work item, registers no pending response,
\* logs no conversation and keeps nothing to be queued later.
C11_RateLimitedNotQueued ==
    [][(/\ SlInteraction
        /\ slCur.user = allowedUserId
        /\ slCur.cmd \in SpawningCommands
        /\ ~checkRateLimit(claudeSpawnTimestamps, dateNow).ok)
       => /\ slReply' = "rate_limited"
          /\ dcIncoming' = dcIncoming
          /\ dcOrigin' = dcOrigin
          /\ pendingResponses' = pendingResponses
          /\ conversationLog' = conversationLog
          /\ dcInflight' = dcInflight]_vars

\* A sixth command within the window has been answered with the rate-limit
\* message.
C11_Witness ==
    /\ slReply = "rate_limited"
    /\ Len(claudeSpawnTimestamps) = RATE_LIMIT_MAX
    /\ conversationLog <= RATE_LIMIT_MAX

\* C13: a slash command or a message whose sender is not the configured
\* user, and any request when no user id is configured, writes no work
\* item and no reset flag, consumes no rate-limit slot, logs nothing and
\* gets no answer from a command handler.
C13_AuthorizationFailClosed ==
    [][(/\ SlInteraction \/ SlMessage
        /\ allowedUserId = None \/ slCur.user # allowedUserId)
       => /\ slReply' \in {"unauthorized", "unconfigured", None}
          /\ dcIncoming' = dcIncoming
          /\ dcOrigin' = dcOrigin
          /\ pendingResponses' = pendingResponses
          /\ resetFlag' = resetFlag
          /\ claudeSpawnTimestamps' = claudeSpawnTimestamps
          /\ conversationLog' = conversationLog]_vars

\* A command of another user has been turned down while the configured
\* user has work queued and slots taken in the limiter.
C13_Witness ==
    /\ allowedUserId # None
    /\ slReply = "unauthorized"
    /\ claudeSpawnTimestamps # <<>>
    /\ dcIncoming # {}
    /\ ~resetFlag

\* C14 (as stated): a call of invokeAgent starts at most one subprocess,
\* whichever path it takes.
C14_AtMostOneSubprocess == Len(ivSpawned) <= 1

\* C15 (as stated): every call of invokeAgent eventually settles, even if a
\* process it started never exits.
C15_EveryCallSettles == (ivPc # "idle") ~> (ivResult # IvPending)

\* C16: a call for a remote agent that lacks remote_host, remote_user or
\* remote_project_root is rejected with the configuration error naming the
\* agent, and no process is spawned for it, local or remote.
C16_MissingRemoteIsConfigError ==
    (/\ ivCall # NoCall
     /\ ivCall.invoke_mode = "remote"
     /\ \/ ivCall.remote_host = None
        \/ ivCall.remote_user = None
        \/ ivCall.remote_project_root = None)
    => /\ ivResult = IvReject("config", ivCall.agentId, 0)
       /\ ivSpawned = <<>>

\* A remote agent with a host but no user has been refused.
C16_Witness ==
    /\ ivCall # NoCall
    /\ ivCall.invoke_mode = "remote"
    /\ ivCall.remote_host # None
    /\ ivCall.remote_user = None
    /\ ivResult.kind = "reject"

\* The options of an agent process (its arguments but the prompt) ask to
\* continue the conversation.
HasContinue(proc) ==
    LET opts == SubSeq(proc.args, 1, Len(proc.args) - 1) IN
    IF proc.command = "codex"
    THEN \E i \in 1..(Len(opts) - 1) : opts[i] = "resume" /\ opts[i + 1] = "--last"
    ELSE \E i \in DOMAIN opts : opts[i] = "-c"

\* C17: the agent process is given the continue option ('-c' for Claude,
\* locally and remotely, 'resume --last' for Codex) iff shouldReset is
\* false, whatever the message and the model.
C17_ContinueIffNotReset ==
    \A i \in DOMAIN ivSpawned :
        ivSpawned[i].role = "agent" =>
            (HasContinue(ivSpawned[i]) <=> ~ivCall.shouldReset)

\* A remote agent process was started to continue the conversation, and
\* its prompt is the text of the option.
C17_Witness ==
    /\ Len(ivSpawned) = 2
    /\ ivSpawned[2].role = "agent"
    /\ ~ivCall.shouldReset
    /\ ivCall.message = "-c"
    /\ ivCall.model # None

\* C18: runCommand resolves, with exactly the captured stdout, iff the
\* child closes with code 0 before the timeout; a child that closes first
\* with another code rejects it with the trimmed stderr, or with the exit
\* code when the trimmed stderr is empty.
C18_RunCommandResult ==
    (ivCall # NoCall /\ ivCall.invoke_mode # "remote") =>
        /\ ivCmdResult.kind = "resolve" =>
            /\ ivExit.code = 0
            /\ ~ivExit.late
            /\ ivCmdResult.value = ivExit.stdout
        /\ (ivExit.code = 0 /\ ~ivExit.late) => ivCmdResult = IvResolve(ivExit.stdout)
        /\ (ivExit.code > 0 /\ ~ivExit.late) =>
            ivCmdResult = IF Trim(ivExit.stderr) = ""
                          THEN IvReject("exit", "", ivExit.code)
                          ELSE IvReject("stderr", Trim(ivExit.stderr), ivExit.code)

\* A local agent exited with code 1 and blank-padded stderr.
C18_Witness ==
    /\ ivCall # NoCall
    /\ ivCall.invoke_mode # "remote"
    /\ ivExit.code = 1
    /\ ivExit.stderr = " boom "
    /\ ivCmdResult.kind = "reject"

\* The text of the last agent_message record of the output, or the
\* fallback when there is none.
LastAgentMessage(lines) ==
    LET idx == {i \in DOMAIN lines : IsAgentMessage(lines[i])} IN
    IF idx = {} THEN CODEX_FALLBACK
    ELSE lines[CHOOSE i \in idx : \A j \in idx : j <= i].text

\* A Codex agent closed with code 0 in time.
CodexAnswered == ivCall # NoCall /\ IsCodex(ivCall) /\ ivExit.code = 0 /\ ~ivExit.late

C20_FiresIntervalApart ==
    (/\ hbDecision.agent # None
     /\ hbDecision.fired
     /\ hbDecision.prevFired # NeverFired)
    => hbDecision.now - hbDecision.prevFired >= hbDecision.interval

\* C21: under a non-decreasing clock the record of an agent never decreases:
\* once the script runs, a record changes only inside a fire of that agent,
\* by set_last_heartbeat, which truncates the file and then writes a time
\* that is not before the value the tick read; the visualizer and the queue
\* processor never change a record.
C21_RecordNeverDecreases ==
    [][/\ hbClock' >= hbClock
       /\ (VizLoadHeartbeatState \/ QpPoll \/ HbRestart) => hbRecord' = hbRecord
       /\ \A a \in HbAgentSet :
            (hbPc # "boot" /\ hbRecord'[a] # hbRecord[a]) =>
                /\ AGENT_ID = a /\ hbDecision.agent = a /\ hbDecision.fired
                /\ hbPc \in {"record", "record_write"}
                /\ hbRecord'[a] = Empty \/ hbRecord'[a] >= hbDecision.last]_vars

\* An agent that had a record has fired and its record was written again,
\* with a later time.
C21_Witness ==
    /\ hbPc = "check"
    /\ hbDecision.agent # None
    /\ hbDecision.fired /\ hbDecision.hadRecord
    /\ hbDecision.last > 0
    /\ hbRecord[hbDecision.agent] > hbDecision.last

\* C22: a fire in script mode writes no work item and waits for no response;
\* a fire in claude mode writes exactly one work item, with channel
\* "heartbeat", command "heartbeat" and agent equal to the firing agent.
C22_FireWorkItem ==
    [][/\ HbFireScript =>
            /\ hbIncoming' = hbIncoming /\ hbOutgoing' = hbOutgoing
            /\ hbClock' = hbClock /\ hbPc' = "record"
       /\ HbEnqueueWrite =>
            \E f \in hbIncoming' :
                /\ f.messageId = MESSAGE_ID
                /\ f.channel = "heartbeat" /\ f.command = "heartbeat"
                /\ f.agent = AGENT_ID
                /\ hbIncoming' \ {f} =
                       {g \in hbIncoming : g.messageId # MESSAGE_ID}]_vars

\* C23: a failure while handling one response file of a pass is contained:
\* when the send of a file fails, the files still to handle in the pass stay
\* listed, the pass goes on, and the failing file and its pending entry are
\* left in place for the next pass.
C23_FailingFileLeftInPlace ==
    [][(/\ DcSendDone
        /\ [messageId |-> dcPass.cur.messageId, to |-> dcPass.cur.req] \notin dcSent')
       => /\ dcPass'.files = dcPass.files
          /\ processingOutgoingQueue'
          /\ dcPass.cur.messageId \in dcOutgoing'
          /\ dcPass.cur.messageId \in DOMAIN pendingResponses']_vars

ValidationErrors == {"invalid_id", "not_found", "already_active", "no_backtest"}

\* C24: the status of a strategy changes only to "paper", and only for a
\* well-formed id whose row exists, is neither "paper" nor "live" and has
\* backtest results; a call of /activate that ends with a validation error
\* (a failed lookup included) has changed no status and queued no work item.
C24_ActivateOnlyEligible ==
    /\ [][bdPc = "run" =>
            \A id \in DbIds :
                strategies'[id] # strategies[id] =>
                    /\ validateStrategyId(id) = None
                    /\ strategies[id] # NoRow
                    /\ strategies[id].status \notin {"paper", "live"}
                    /\ strategies[id].backtest_results # None
                    /\ strategies'[id] = [strategies[id] EXCEPT !.status = "paper"]]_vars
    /\ [](\A i \in DOMAIN bdCalls :
            (bdCalls[i].cmd = "activate" /\ bdCalls[i].reply \in ValidationErrors) =>
                /\ bdCalls[i].pc = "done"
                /\ ~bdCalls[i].updated /\ ~bdCalls[i].queued)
    /\ [][\A i \in DOMAIN bdCalls :
            (/\ bdCalls[i].cmd = "activate"
             /\ bdCalls[i].reply = None
             /\ bdCalls'[i].reply \in ValidationErrors)
            => /\ strategies' = strategies
               /\ dcIncoming' = dcIncoming /\ dcOrigin' = dcOrigin
               /\ pendingResponses' = pendingResponses]_vars

\* A draft strategy with backtest results was activated and its work item
\* queued, and another /activate was refused with an error.
C24_Witness ==
    /\ strategies[KnownId].status = "paper"
    /\ \E i, j \in DOMAIN bdCalls :
        /\ bdCalls[i].cmd = "activate" /\ bdCalls[i].arg = KnownId
        /\ bdCalls[i].updated /\ bdCalls[i].queued
        /\ bdCalls[j].cmd = "activate" /\ bdCalls[j].reply \in ValidationErrors

\* C25: a /ask question longer than 2000 characters and a /research
\* description longer than 500 are rejected before any conversation is
\* logged: the validation message is the reply, no conversation is logged,
\* no work item is queued and no pending response is registered.
C25_ValidationBeforeProcessing ==
    /\ [][\A i \in DOMAIN bdCalls :
            LET c == bdCalls[i] IN
            (/\ c.pc = "build" /\ bdCalls'[i].pc # "build"
             /\ \/ c.cmd = "ask" /\ c.arg > QUESTION_MAX
                \/ c.cmd = "research" /\ c.arg > DESCRIPTION_MAX)
            => /\ bdCalls'[i].reply = "too_long" /\ bdCalls'[i].pc = "done"
               /\ conversationLog' = conversationLog
               /\ dcIncoming' = dcIncoming /\ dcOrigin' = dcOrigin
               /\ DOMAIN pendingResponses' \subseteq DOMAIN pendingResponses]_vars
    /\ [](\A i \in DOMAIN bdCalls :
            bdCalls[i].reply = "too_long" => ~bdCalls[i].logged /\ ~bdCalls[i].queued)

\* A question of 2001 characters was refused and one of 2000 was queued.
C25_Witness ==
    \E i, j \in DOMAIN bdCalls :
        /\ bdCalls[i].cmd = "ask" /\ bdCalls[i].arg = QUESTION_MAX + 1
        /\ bdCalls[i].reply = "too_long"
        /\ bdCalls[j].cmd = "ask" /\ bdCalls[j].arg = QUESTION_MAX
        /\ bdCalls[j].queued

\* C26: the content of every POST made to the webhook, by the heartbeat
\* script and by sendDiscord and sendDiscordChunked, is non-empty and at
\* most 2000 characters long, whatever the length of the text to forward.
C26_PostsLengthCapped ==
    \A k \in DOMAIN whPosts : whPosts[k] >= 1 /\ whPosts[k] <= 2000

HbFireSteps ==
    \/ HbCheck \/ HbFireScript \/ HbReadPrompt \/ HbEnqueueOpen \/ HbEnqueueWrite
    \/ HbCollect \/ HbRecordOpen \/ HbRecordWrite

\* C27: the limiter is not shared with heartbeats: a heartbeat fire, a plain
\* message and the instant commands /status, /help and /reset leave the
\* recorded admissions as they are, and a heartbeat work item or an
\* authorized plain message is queued whatever the limiter holds.
C27_LimiterNotShared ==
    [][/\ (\/ HbFireSteps
           \/ SlMessage
           \/ SlInteraction /\ slCur.cmd \in InstantCommands \cup {"reset"})
          => claudeSpawnTimestamps' = claudeSpawnTimestamps
       /\ (SlMessage /\ slCur.user = allowedUserId /\ slCur.cmd = "hello")
          => /\ slReply' = "queued"
             /\ Cardinality(dcIncoming') = Cardinality(dcIncoming) + 1
       /\ HbEnqueueOpen =>
             \/ hbPc' = "exited"
             \/ Cardinality(hbIncoming') = Cardinality(hbIncoming) + 1]_vars

\* With the limiter full, a heartbeat work item was written, or a plain
\* message was queued.
C27_Witness ==
    /\ ~checkRateLimit(claudeSpawnTimestamps, dateNow).ok
    /\ \/ hbPc = "wait" /\ hbIncoming # {}
       \/ slReply = "queued" /\ slCur = NoRequest /\ dcIncoming # {}

IvTimeoutError == IvReject("timeout", "", LOCAL_TIMEOUT_MS \div 1000)

IvLocalCall == ivCall # NoCall /\ ivCall.invoke_mode # "remote"

\* C28: a runCommand call settles once: a timeout that fires before the
\* child closes rejects with the timeout error and calls kill without
\* waiting for the exit, a later close or error leaves the result as it
\* is, and a close or error that comes first clears the timer, so that no
\* kill is ever sent; and the call does settle.
C28_RunCommandSettlesOnce ==
    /\ [][IvLocalCall =>
            /\ (ivCmdResult # IvPending /\ ~IvReset)
                 => ivCmdResult' = ivCmdResult /\ ivResult' = ivResult
            /\ (IvTimeout /\ ivChild = "running")
                 => /\ ivCmdResult' = IvTimeoutError
                    /\ ivKills' = 1
                    /\ ivChild' = "running"
            /\ ((IvClose \/ IvError) /\ ivCmdResult = IvPending)
                 => ivTimer' = 0 /\ ivKills' = 0]_vars
    /\ [](IvLocalCall =>
            /\ ivTimer > 0 => ivCmdResult = IvPending /\ ivKills = 0
            /\ ivKills > 0 => ivCmdResult = IvTimeoutError
            /\ (ivCmdResult # IvPending /\ ivCmdResult # IvTimeoutError) => ivKills = 0)
    /\ (IvLocalCall /\ ivPc = "run") ~> (ivCmdResult # IvPending)

\* The timeout of a local call fired, the child was sent the kill and closed
\* afterwards with code 0, and the result is still the timeout error.
C28_Witness ==
    /\ IvLocalCall
    /\ ivKills = 1
    /\ ivChild = "closed"
    /\ ivExit.code = 0
    /\ ivExit.late
    /\ ivCmdResult = IvTimeoutError

\* C29 (as stated): each remote agent process is run with exactly the
\* message passed to its own call, also when calls overlap or start in the
\* same millisecond: no call reads the transmitted prompt of another.
C29_OwnPromptOnly ==
    \A i \in RmIds :
        /\ rmCalls[i].PROMPT # None => rmCalls[i].PROMPT = rmCalls[i].prompt
        /\ rmCalls[i].ran # None => rmCalls[i].ran = rmCalls[i].prompt

\* C30: at most one pass of checkOutgoingQueue is in progress, also while
\* a pass is suspended on a send and triggers keep coming; the flag is
\* clear whenever a pass has ended, normally or by an error, and a trigger
\* that finds it clear starts a pass.
C30_OnePassAtATime ==
    /\ [](/\ dcPass.active <= 1
          /\ processingOutgoingQueue <=> dcPass.active = 1
          /\ dcPass.ended # "none" => ~processingOutgoingQueue
          /\ dcPass.cur # NoPending => processingOutgoingQueue /\ ~ENABLED DcPassStart
          /\ ~processingOutgoingQueue => ENABLED DcPassStart)
    /\ [][/\ DcPassStart =>
               /\ dcPass.active = 0
               /\ dcPass'.ended = "none" =>
                    /\ processingOutgoingQueue'
                    /\ dcPass'.active = 1
                    /\ dcPass'.files = dcOutgoing
          /\ dcPass'.active < dcPass.active =>
               ~processingOutgoingQueue' /\ dcPass'.ended = "normal"]_vars

\* A pass is suspended on a send, after an answer was sent: triggers that
\* come now find the flag set.
C30_Witness ==
    /\ processingOutgoingQueue
    /\ dcPass.cur # NoPending
    /\ dcPass.active = 1
    /\ dcSent # {}

\* C31 (as stated): a response is delivered at most once: no chunk of a
\* response file is sent to the requester a second time by a later pass.
C31_ChunksSentOnce ==
    \A id \in DOMAIN dcChunks :
        \A i \in DOMAIN dcChunks[id] : dcChunks[id][i] <= 1

C33_AdmissionsAreEnqueued ==
    (\A i \in DOMAIN bdCalls : bdCalls[i].pc = "done") =>
        Len(claudeSpawnTimestamps) =
            Cardinality({i \in DOMAIN bdCalls : bdCalls[i].queued})

C35_WorkItemIsJson ==
    [][HbEnqueueWrite =>
          \A f \in hbIncoming' : f.messageId = MESSAGE_ID => f.content = "json"]_vars

DcClientStep ==
    \/ DcMessageCreate
    \/ DcPassStart \/ DcPassFile \/ DcSendDone \/ DcPassEnd

\* C36: checkOutgoingQueue takes up only the files of the outgoing store
\* named discord_*.json: the files of other channels stay as they are
\* through every step of the Discord client, and each file a pass reads or
\* deletes is the response of a work item the client wrote.
C36_OnlyDiscordFiles ==
    /\ [](dcPass.files \subseteq DOMAIN dcOrigin)
    /\ [][/\ DcClientStep => dcForeign' = dcForeign
          /\ DcPassStart =>
                dcPass'.files = IF dcPass'.ended = "none" THEN dcOutgoing ELSE {}
          /\ \A id \in dcOutgoing \ dcOutgoing' : id \in DOMAIN dcOrigin]_vars

\* A pass has delivered a Discord response and ended, and a heartbeat
\* response lies in the store.
C36_Witness ==
    /\ dcPass.ended = "normal"
    /\ dcSent # {}
    /\ \E f \in dcForeign : f.prefix = "heartbeat_"
    /\ dcOutgoing = {}

\* C37: writeState is atomic: a readState of the same filename returns the
\* complete previous document or a complete new one, null only when no file
\* was there, and no overlapping writeState call is rejected.
C37_WriteStateAtomic ==
    /\ wsRead.result \in {"none", "null", WsOldContent} \cup {WsData(w) : w \in WsWriters}
    /\ wsRead.result = "null" => ~wsRead.existed
    /\ \A w \in WsWriters : wsPc[w] # "rejected"

\* C38: the final throw of withRetry is unreachable: a finished withRetry has
\* called the operation at least once, and a failure it raises is an error
\* the operation threw, never the generic "failed after N retries" error.
C38_FinalThrowUnreachable ==
    rtPc = "done" =>
        /\ Len(rtCalls) >= 1
        /\ rtResult.kind # "throw_generic"
        /\ rtResult.kind = "throw" =>
              \E i \in 1..Len(rtCalls) : ~rtCalls[i].ok /\ rtCalls[i].err = rtResult.err

\* C39: within one visualizer process handleEvent is invoked at most once
\* for every event file name, over the initial scan and all watcher
\* notifications, repeated ones for the same file included.
C39_HandledAtMostOnce ==
    \A f \in VzNames : vzHandled[f] <= 1

\* An event was handled once and its name was notified more than once; and
\* an event handled by the scan was notified afterwards.
C39_Witness ==
    /\ \E f \in VzNames : vzHandled[f] = 1 /\ vzNotes[f] >= 2 /\ vzFiles[f] = "absent"
    /\ \E f \in VzNames : vzHandled[f] = 1 /\ vzNotes[f] >= 1 /\ vzFiles[f] = "recent"

====
